---- MODULE Spec2Model ----
(***************************************************************************)
(* A model of the connection and dispatch core of the whatsmeow client:    *)
(* src/connectionevents.go (Client.Connect, Disconnect, onDisconnect,      *)
(* autoReconnect, handleFrame, handlerQueueLoop, the stream-error and      *)
(* connect-failure handlers, and the event handler list).                  *)
(*                                                                         *)
(* Sockets are numbered 1, 2, ... in the order Connect() establishes them; *)
(* 0 stands for the nil handle.  Goroutines are tasks with a program       *)
(* counter; one step of a task is one atomic region of the code (a region  *)
(* under socketLock, or a single atomic load/store).                       *)
(***************************************************************************)
EXTENDS Integers, Sequences, FiniteSets, TLC

\* ---------------------------------------------------------------- bounds

\* Sockets Connect() may establish in one run.
MaxSockets == 2
\* Handshakes the environment may fail in one run.
MaxHandshakeFail == 1
\* Frames the secure channel may deliver in one run of the connection life cycle.
MaxConnFrames == 1
\* Stream-error and connect-failure nodes in one run of the failure classifier.
MaxClassFrames == 2
\* Success and stream-error nodes in one run of the login flag.
MaxLoginFrames == 2
\* Frames the secure channel may deliver in one run of the frame pipeline.
MaxFrames == 3
\* Stream-error nodes with code 515 among them (one reconnect task each).
Max515 == 1
\* Requests sent with a response waiter in one run.
MaxReq == 1
\* Capacity of handlerQueue in the model (handlerQueueSize, 2048 in the source,
\* scaled down so that the full-queue path is reached).
QueueCap == 1

\* Event handlers registered in one run.
MaxHandlers == 3
\* Calls of dispatchEvent in one run.
MaxDispatches == 2

\* ---------------------------------------------------------------- tasks

Sockets == 1..MaxSockets
R515Tasks == 1..Max515
UserTask == Max515 + 1
AutoTask(s) == Max515 + 1 + s
AutoTasks == {AutoTask(s) : s \in Sockets}
Tasks == R515Tasks \cup {UserTask} \cup AutoTasks
ReqIds == 1..MaxReq
Dispatches == 1..MaxDispatches

VARIABLES
    socket,                 \* cli.socket: 0 (nil) or the stored socket
    socketLock,             \* cli.socketLock: the set of tasks holding it exclusively
    nsCreated,              \* number of NoiseSockets established so far
    nsDestroyed,            \* sockets on which Stop() has run
    nsOpen,                 \* sockets whose connection is up (context not done)
    isLoggedIn,             \* cli.isLoggedIn
    expectedDisconnectVal,  \* cli.expectedDisconnectVal
    EnableAutoReconnect,    \* cli.EnableAutoReconnect
    AutoReconnectErrors,    \* cli.AutoReconnectErrors
    storeID,                \* cli.Store.ID != nil
    storeDeletes,           \* calls of cli.Store.Delete()
    pc,                     \* position of each task that calls Connect/Disconnect
    result,                 \* what each task's last Connect() returned
    hsFails,                \* failed handshakes so far
    cb,                     \* the channel-closure callback of each socket
    cbRemote,               \* its `remote` argument
    loop,                   \* handlerQueueLoop of each socket
    loopNode,               \* the node that loop is handling
    keepAlive,              \* sockets whose keepAliveLoop was started
    handlerQueue,           \* cli.handlerQueue
    overflow,               \* nodes held by detached senders blocked on a full queue
    framesRecv,             \* frames delivered so far
    dropped,                \* frames handleFrame discarded
    handled,                \* nodes passed to a node handler, in order
    enqueued,               \* the nodes sent on cli.handlerQueue, in order
    responseWaiters,        \* cli.responseWaiters: identifiers with a waiter
    delivery,               \* what each waiter's caller has received
    nextReq,                \* identifiers handed out (cli.idCounter)
    postConnect,            \* detached post-connect tasks (handleConnectSuccess) still running
    autoTmp,                \* autoReconnect: the counter value its increment has loaded
    autoDelay,              \* autoReconnect: autoReconnectDelay, in seconds
    events,                 \* events handed to cli.dispatchEvent, in order
    eventHandlers,          \* cli.eventHandlers
    nextHandlerID,          \* the package variable nextHandlerID
    eventHandlersLock,      \* cli.eventHandlersLock: the dispatches holding it for reading
    dpc,                    \* position of each dispatchEvent call
    dlist,                  \* the slice its range loop iterates
    dpos,                   \* the index its range loop is at
    invoked,                \* handler invocations, in order
    removed,                \* ids whose RemoveEventHandler call has returned true
    adding,                 \* AddEventHandler calls that hold an id and wait for the lock
    removing,               \* RemoveEventHandler calls made by handlers that wait for the lock
    icpc,                   \* position of the application's IsConnected() call
    icResult,               \* what its last IsConnected() returned
    ilResult,               \* what its last IsLoggedIn() returned
    rmResult,               \* what the last RemoveEventHandler() returned ("none": no call yet)
    lopc,                   \* where the application's Logout() call is
    loResult,               \* what Logout() returned ("none": it has not returned)
    logoutCalls,            \* the calls Logout() has made, in their order
    userDisconnect          \* where the application's last Disconnect() call is

connVars == <<socket, socketLock, nsCreated, nsDestroyed, nsOpen, hsFails>>
flagVars == <<isLoggedIn, expectedDisconnectVal, EnableAutoReconnect,
              AutoReconnectErrors, storeID, storeDeletes>>
taskVars == <<pc, result, cb, cbRemote, loop, loopNode, keepAlive, postConnect, autoTmp, autoDelay>>
frameVars == <<handlerQueue, overflow, framesRecv, dropped, handled, enqueued>>
waiterVars == <<responseWaiters, delivery, nextReq>>
dispVars == <<eventHandlers, nextHandlerID, eventHandlersLock, dpc, dlist, dpos, invoked,
              removed, adding, removing>>
readVars == <<icpc, icResult, ilResult>>
logoutVars == <<lopc, loResult, logoutCalls>>
callVars == <<readVars, rmResult, logoutVars, userDisconnect>>
vars == <<connVars, flagVars, taskVars, frameVars, waiterVars, events, dispVars, callVars>>


\* ---------------------------------------------------------------- nodes

\* A decoded node: its tag, its request identifier (0: none), the code and the
\* type of the nested conflict of a stream error, the reason of a connect failure;
\* `from` records the socket whose frame reader delivered it and `seq` its place
\* in the order of arrival.
Node(tag, id, code, conflict, reason) ==
    [tag |-> tag, id |-> id, code |-> code, conflict |-> conflict, reason |-> reason,
     from |-> 0, seq |-> 0]

NoNode == Node("", 0, "", "", "")

\* ---------------------------------------------------------------- initial state

\* The client NewClient returns: no socket, empty maps and queue, auto-reconnect
\* enabled.  The device store either holds an identity already or does not.
Init ==
    /\ socket = 0
    /\ socketLock = {}
    /\ nsCreated = 0
    /\ nsDestroyed = {}
    /\ nsOpen = {}
    /\ hsFails = 0
    /\ isLoggedIn = FALSE
    /\ expectedDisconnectVal = FALSE
    /\ EnableAutoReconnect = TRUE
    /\ AutoReconnectErrors = 0
    /\ storeID \in BOOLEAN
    /\ storeDeletes = 0
    /\ pc = [t \in Tasks |-> IF t = UserTask THEN "idle" ELSE "none"]
    /\ result = [t \in Tasks |-> "none"]
    /\ cb = [s \in Sockets |-> "none"]
    /\ cbRemote = [s \in Sockets |-> FALSE]
    /\ loop = [s \in Sockets |-> "none"]
    /\ loopNode = [s \in Sockets |-> NoNode]
    /\ keepAlive = {}
    /\ postConnect = <<>>
    /\ autoTmp = [t \in AutoTasks |-> 0]
    /\ autoDelay = [t \in AutoTasks |-> 0]
    /\ handlerQueue = <<>>
    /\ overflow = <<>>
    /\ framesRecv = 0
    /\ dropped = 0
    /\ handled = <<>>
    /\ enqueued = <<>>
    /\ responseWaiters = {}
    /\ delivery = [i \in ReqIds |-> <<>>]
    /\ nextReq = 0
    /\ events = <<>>
    /\ eventHandlers = <<>>
    /\ nextHandlerID = 0
    /\ eventHandlersLock = {}
    /\ dpc = [d \in Dispatches |-> "none"]
    /\ dlist = [d \in Dispatches |-> <<>>]
    /\ dpos = [d \in Dispatches |-> 0]
    /\ invoked = <<>>
    /\ removed = {}
    /\ adding = {}
    /\ removing = {}
    /\ icpc = "idle"
    /\ icResult = FALSE
    /\ ilResult = FALSE
    /\ rmResult = "none"
    /\ lopc = "idle"
    /\ loResult = "none"
    /\ logoutCalls = <<>>
    /\ userDisconnect = "idle"

\* ---------------------------------------------------------------- the secure channel

\* socket.NoiseSocket.IsConnected: the connection under the socket is up.
IsConnected(s) == s \in nsOpen

\* socket.NoiseSocket.Stop(disconnect): the socket is destroyed (its frame reader
\* stops and it reports no closure any more); with disconnect the connection is
\* closed too, which ends the socket's context.
StopDestroyed(s) == nsDestroyed \cup {s}
StopOpen(s, disconnect) == IF disconnect THEN nsOpen \ {s} ELSE nsOpen

\* The connection of a live socket closes (remote: by the server or the network;
\* otherwise locally) and the channel calls the closure callback on a new task.
ChannelClosed(s, remote) ==
    /\ s \in nsOpen
    /\ s \notin nsDestroyed
    /\ cb[s] = "none"
    /\ nsOpen' = nsOpen \ {s}
    /\ cb' = [cb EXCEPT ![s] = "called"]
    /\ cbRemote' = [cbRemote EXCEPT ![s] = remote]
    /\ UNCHANGED <<socket, socketLock, nsCreated, nsDestroyed, hsFails, flagVars,
                   pc, result, loop, loopNode, keepAlive, postConnect, autoTmp, autoDelay, frameVars, waiterVars, events, dispVars, callVars>>

\* ---------------------------------------------------------------- response waiters

\* What the caller waiting on a request receives: the reply node (its tag is
\* kept), the timeout of its own wait, or the connection-closed cancellation.
Delivered(kind, tag) == [kind |-> kind, tag |-> tag]

\* clearResponseWaiters: every outstanding waiter gets the connection-closed
\* cancellation and the registry is emptied.
ClearedDelivery ==
    [i \in ReqIds |-> IF i \in responseWaiters THEN Append(delivery[i], Delivered("closed", ""))
                      ELSE delivery[i]]

\* ---------------------------------------------------------------- Connect / Disconnect

\* Variant: autoReconnect gives up on the first error.
AfterConnect_StopOnError(t, res) ==
    IF t = UserTask THEN "idle" ELSE "done"

\* Where a task continues after its Connect() returned `res`.
AfterConnect(t, res) ==
    IF t = UserTask THEN "idle"
    ELSE IF t \in R515Tasks THEN "done"
    ELSE IF res = "error" THEN "auto_loop" ELSE "done"

\* Where a task continues after its Disconnect() returned.
AfterDisconnect(t) == IF t = UserTask THEN "idle" ELSE "conn"

CanCall(t, at) == pc[t] = at \/ (t = UserTask /\ pc[t] = "idle")

\* Variant: the handle is cleared but the socket is not stopped.
unlockedDisconnect_NoStop ==
    /\ socket' = 0
    /\ UNCHANGED <<nsDestroyed, nsOpen>>

\* Variant: the socket is stopped but the handle is kept.
unlockedDisconnect_KeepHandle ==
    IF socket # 0
    THEN /\ nsDestroyed' = StopDestroyed(socket)
         /\ nsOpen' = StopOpen(socket, TRUE)
         /\ UNCHANGED socket
    ELSE UNCHANGED <<socket, nsDestroyed, nsOpen>>

\* unlockedDisconnect: stop the stored socket, closing it, and clear the handle.
unlockedDisconnect ==
    IF socket # 0
    THEN /\ nsDestroyed' = StopDestroyed(socket)
         /\ nsOpen' = StopOpen(socket, TRUE)
         /\ socket' = 0
    ELSE UNCHANGED <<socket, nsDestroyed, nsOpen>>

\* Variant: any stored socket, healthy or not, makes Connect return
\* ErrAlreadyConnected.
ConnectBegin_NoHealthCheck(t) ==
    /\ CanCall(t, "conn")
    /\ socketLock = {}
    /\ IF socket # 0
       THEN /\ result' = [result EXCEPT ![t] = "ErrAlreadyConnected"]
            /\ pc' = [pc EXCEPT ![t] = AfterConnect(t, "ErrAlreadyConnected")]
            /\ UNCHANGED <<socket, socketLock, nsDestroyed, nsOpen, expectedDisconnectVal>>
       ELSE /\ nsCreated < MaxSockets \/ hsFails < MaxHandshakeFail
            /\ expectedDisconnectVal' = FALSE
            /\ socketLock' = {t}
            /\ pc' = [pc EXCEPT ![t] = "handshake"]
            /\ UNCHANGED <<socket, nsDestroyed, nsOpen, result>>
    /\ UNCHANGED <<nsCreated, hsFails, isLoggedIn, EnableAutoReconnect, AutoReconnectErrors,
                   storeID, storeDeletes, cb, cbRemote, loop, loopNode, keepAlive, postConnect, autoTmp, autoDelay,
                   frameVars, waiterVars, events, dispVars, callVars>>

\* Connect(), from taking socketLock to the start of the handshake: a healthy
\* stored socket makes it return ErrAlreadyConnected; an unhealthy one is torn
\* down; then the expected-disconnect flag is reset.
ConnectBegin(t) ==
    /\ CanCall(t, "conn")
    /\ socketLock = {}
    /\ IF socket # 0 /\ IsConnected(socket)
       THEN /\ result' = [result EXCEPT ![t] = "ErrAlreadyConnected"]
            /\ pc' = [pc EXCEPT ![t] = AfterConnect(t, "ErrAlreadyConnected")]
            /\ UNCHANGED <<socket, socketLock, nsDestroyed, nsOpen, expectedDisconnectVal>>
       ELSE /\ nsCreated < MaxSockets \/ hsFails < MaxHandshakeFail
            /\ unlockedDisconnect
            /\ expectedDisconnectVal' = FALSE
            /\ socketLock' = {t}
            /\ pc' = [pc EXCEPT ![t] = "handshake"]
            /\ UNCHANGED result
    /\ UNCHANGED <<nsCreated, hsFails, isLoggedIn, EnableAutoReconnect, AutoReconnectErrors,
                   storeID, storeDeletes, cb, cbRemote, loop, loopNode, keepAlive, postConnect, autoTmp, autoDelay,
                   frameVars, waiterVars, events, dispVars, callVars>>

\* Connect(), the handshake failed: the error is returned and the lock released.
ConnectFail(t) ==
    /\ pc[t] = "handshake"
    /\ hsFails < MaxHandshakeFail
    /\ hsFails' = hsFails + 1
    /\ socketLock' = {}
    /\ result' = [result EXCEPT ![t] = "error"]
    /\ pc' = [pc EXCEPT ![t] = AfterConnect(t, "error")]
    /\ UNCHANGED <<socket, nsCreated, nsDestroyed, nsOpen, flagVars, cb, cbRemote,
                   loop, loopNode, keepAlive, postConnect, autoTmp, autoDelay, frameVars, waiterVars, events, dispVars, callVars>>

\* Connect(), the handshake succeeded: doHandshake stores the new socket, the
\* keep-alive loop and the handler queue loop are started on its context.
ConnectOK(t) ==
    /\ pc[t] = "handshake"
    /\ nsCreated < MaxSockets
    /\ nsCreated' = nsCreated + 1
    /\ socket' = nsCreated + 1
    /\ nsOpen' = nsOpen \cup {nsCreated + 1}
    /\ keepAlive' = keepAlive \cup {nsCreated + 1}
    /\ loop' = [loop EXCEPT ![nsCreated + 1] = "idle"]
    /\ socketLock' = {}
    /\ result' = [result EXCEPT ![t] = "ok"]
    /\ pc' = [pc EXCEPT ![t] = AfterConnect(t, "ok")]
    /\ UNCHANGED <<nsDestroyed, hsFails, flagVars, cb, cbRemote, loopNode, postConnect, autoTmp, autoDelay,
                   frameVars, waiterVars, events, dispVars, callVars>>

\* Disconnect(), the unlocked test of cli.socket: nil makes it return at once.
DisconnectCheck(t) ==
    /\ CanCall(t, "disc")
    /\ pc' = [pc EXCEPT ![t] = IF socket = 0 THEN AfterDisconnect(t) ELSE "disc_lock"]
    /\ UNCHANGED <<connVars, flagVars, result, cb, cbRemote, loop, loopNode, keepAlive, postConnect, autoTmp, autoDelay,
                   frameVars, waiterVars, events, dispVars, callVars>>

\* Disconnect(), the region under socketLock.
DisconnectLocked(t) ==
    /\ pc[t] = "disc_lock"
    /\ socketLock = {}
    /\ unlockedDisconnect
    /\ pc' = [pc EXCEPT ![t] = AfterDisconnect(t)]
    /\ UNCHANGED <<socketLock, nsCreated, hsFails, flagVars, result, cb, cbRemote,
                   loop, loopNode, keepAlive, postConnect, autoTmp, autoDelay, frameVars, waiterVars, events, dispVars, callVars>>

\* ---------------------------------------------------------------- IsConnected / IsLoggedIn

\* IsConnected() is called by the application: its next step is
\* cli.socketLock.RLock().
IsConnectedBegin ==
    /\ icpc = "idle"
    /\ icpc' = "rlock"
    /\ UNCHANGED <<connVars, flagVars, taskVars, frameVars, waiterVars, events, dispVars,
                   icResult, ilResult, rmResult, logoutVars, userDisconnect>>

\* IsConnected(), from RLock to RUnlock: the read lock is granted only while no
\* task holds socketLock exclusively; the handle and its health are read.
IsConnectedRead ==
    /\ icpc = "rlock"
    /\ socketLock = {}
    /\ icResult' = (socket # 0 /\ IsConnected(socket))
    /\ icpc' = "idle"
    /\ UNCHANGED <<connVars, flagVars, taskVars, frameVars, waiterVars, events, dispVars,
                   ilResult, rmResult, logoutVars, userDisconnect>>

\* IsLoggedIn(): one atomic load of cli.isLoggedIn.
IsLoggedInCall ==
    /\ ilResult' = isLoggedIn
    /\ UNCHANGED <<connVars, flagVars, taskVars, frameVars, waiterVars, events, dispVars,
                   icpc, icResult, rmResult, logoutVars, userDisconnect>>

\* ---------------------------------------------------------------- events

\* An event as it is handed to the dispatcher; `expected` records the value of the
\* expected-disconnect flag at that moment and `sock` the socket it is about.
Event(type, onConnect, code, expected, sock) ==
    [type |-> type, onConnect |-> onConnect, code |-> code, expected |-> expected,
     sock |-> sock]

\* ---------------------------------------------------------------- onDisconnect

\* onDisconnect(ns, remote), up to socketLock: ns.Stop(false).
OnDisconnectStop(s) ==
    /\ cb[s] = "called"
    /\ nsDestroyed' = StopDestroyed(s)
    /\ nsOpen' = StopOpen(s, FALSE)
    /\ cb' = [cb EXCEPT ![s] = "waiting"]
    /\ UNCHANGED <<socket, socketLock, nsCreated, hsFails, flagVars, pc, result,
                   cbRemote, loop, loopNode, keepAlive, postConnect, autoTmp, autoDelay, frameVars, waiterVars, events, dispVars, callVars>>

\* Variant: a remote closure is reported whether it was expected or not.
OnDisconnectLocked_IgnoreExpected(s) ==
    /\ cb[s] = "waiting"
    /\ socketLock = {}
    /\ cb' = [cb EXCEPT ![s] = "done"]
    /\ IF socket = s
       THEN /\ socket' = 0
            /\ delivery' = ClearedDelivery
            /\ responseWaiters' = {}
            /\ IF cbRemote[s]
               THEN /\ events' = Append(events, Event("Disconnected", FALSE, "", expectedDisconnectVal, s))
                    /\ pc' = [pc EXCEPT ![AutoTask(s)] = "auto_start"]
               ELSE UNCHANGED <<events, pc>>
       ELSE UNCHANGED <<socket, delivery, responseWaiters, events, pc>>
    /\ UNCHANGED <<socketLock, nsCreated, nsDestroyed, nsOpen, hsFails, flagVars, result,
                   cbRemote, loop, loopNode, keepAlive, postConnect, autoTmp, autoDelay, frameVars, nextReq, dispVars, callVars>>

\* Variant: the response waiters are left alone.
OnDisconnectLocked_KeepWaiters(s) ==
    /\ cb[s] = "waiting"
    /\ socketLock = {}
    /\ cb' = [cb EXCEPT ![s] = "done"]
    /\ IF socket = s
       THEN /\ socket' = 0
            /\ UNCHANGED <<delivery, responseWaiters>>
            /\ IF ~expectedDisconnectVal /\ cbRemote[s]
               THEN /\ events' = Append(events, Event("Disconnected", FALSE, "", expectedDisconnectVal, s))
                    /\ pc' = [pc EXCEPT ![AutoTask(s)] = "auto_start"]
               ELSE UNCHANGED <<events, pc>>
       ELSE UNCHANGED <<socket, delivery, responseWaiters, events, pc>>
    /\ UNCHANGED <<socketLock, nsCreated, nsDestroyed, nsOpen, hsFails, flagVars, result,
                   cbRemote, loop, loopNode, keepAlive, postConnect, autoTmp, autoDelay, frameVars, nextReq, dispVars, callVars>>

\* Variant: the callback acts whatever socket is stored.
OnDisconnectLocked_AnyHandle(s) ==
    /\ cb[s] = "waiting"
    /\ socketLock = {}
    /\ cb' = [cb EXCEPT ![s] = "done"]
    /\ socket' = 0
    /\ delivery' = ClearedDelivery
    /\ responseWaiters' = {}
    /\ IF ~expectedDisconnectVal /\ cbRemote[s]
       THEN /\ events' = Append(events, Event("Disconnected", FALSE, "", expectedDisconnectVal, s))
            /\ pc' = [pc EXCEPT ![AutoTask(s)] = "auto_start"]
       ELSE UNCHANGED <<events, pc>>
    /\ UNCHANGED <<socketLock, nsCreated, nsDestroyed, nsOpen, hsFails, flagVars, result,
                   cbRemote, loop, loopNode, keepAlive, postConnect, autoTmp, autoDelay, frameVars, nextReq, dispVars, callVars>>

\* onDisconnect(ns, remote), the region under socketLock: only for the stored
\* socket the handle is cleared and the waiters are cancelled; a remote closure
\* that was not expected emits Disconnected and starts autoReconnect.
OnDisconnectLocked(s) ==
    /\ cb[s] = "waiting"
    /\ socketLock = {}
    /\ cb' = [cb EXCEPT ![s] = "done"]
    /\ IF socket = s
       THEN /\ socket' = 0
            /\ delivery' = ClearedDelivery
            /\ responseWaiters' = {}
            /\ IF ~expectedDisconnectVal /\ cbRemote[s]
               THEN /\ events' = Append(events, Event("Disconnected", FALSE, "", expectedDisconnectVal, s))
                    /\ pc' = [pc EXCEPT ![AutoTask(s)] = "auto_start"]
               ELSE UNCHANGED <<events, pc>>
       ELSE UNCHANGED <<socket, delivery, responseWaiters, events, pc>>
    /\ UNCHANGED <<socketLock, nsCreated, nsDestroyed, nsOpen, hsFails, flagVars, result,
                   cbRemote, loop, loopNode, keepAlive, postConnect, autoTmp, autoDelay, frameVars, nextReq, dispVars, callVars>>

\* ---------------------------------------------------------------- autoReconnect

\* autoReconnect(), the test before the loop.
AutoStart(t) ==
    /\ t \in AutoTasks
    /\ pc[t] = "auto_start"
    /\ pc' = [pc EXCEPT ![t] = IF ~EnableAutoReconnect \/ ~storeID THEN "done"
                                ELSE "auto_loop"]
    /\ UNCHANGED <<connVars, flagVars, result, cb, cbRemote, loop, loopNode, keepAlive, postConnect, autoTmp, autoDelay,
                   frameVars, waiterVars, events, dispVars, callVars>>

\* The fixed unit of the backoff, in seconds.
AutoReconnectUnit == 2

\* autoReconnect(), cli.AutoReconnectErrors++ on a plain int shared with the other
\* autoReconnect tasks and with handleConnectSuccess: the load of the increment ...
AutoLoad(t) ==
    /\ t \in AutoTasks
    /\ pc[t] = "auto_loop"
    /\ autoTmp' = [autoTmp EXCEPT ![t] = AutoReconnectErrors]
    /\ pc' = [pc EXCEPT ![t] = "auto_store"]
    /\ UNCHANGED <<connVars, flagVars, result, cb, cbRemote, loop, loopNode, keepAlive,
                   postConnect, autoDelay, frameVars, waiterVars, events, dispVars, callVars>>

\* ... and its store; then the delay is computed from the counter and the task
\* sleeps for it before its Connect().
AutoIter(t) ==
    /\ t \in AutoTasks
    /\ pc[t] = "auto_store"
    /\ AutoReconnectErrors' = autoTmp[t] + 1
    /\ autoDelay' = [autoDelay EXCEPT ![t] = AutoReconnectErrors' * AutoReconnectUnit]
    /\ pc' = [pc EXCEPT ![t] = "conn"]
    /\ UNCHANGED <<connVars, isLoggedIn, expectedDisconnectVal, EnableAutoReconnect,
                   storeID, storeDeletes, result, cb, cbRemote, loop, loopNode, keepAlive,
                   postConnect, autoTmp, frameVars, waiterVars, events, dispVars, callVars>>

\* The application sets the public field EnableAutoReconnect.
SetEnableAutoReconnect(b) ==
    /\ EnableAutoReconnect # b
    /\ EnableAutoReconnect' = b
    /\ UNCHANGED <<connVars, isLoggedIn, expectedDisconnectVal, AutoReconnectErrors,
                   storeID, storeDeletes, taskVars, frameVars, waiterVars, events, dispVars, callVars>>


\* ---------------------------------------------------------------- node handlers

\* The tags of cli.nodeHandlers.
NodeHandlerTags ==
    {"message", "receipt", "call", "chatstate", "presence", "notification",
     "success", "failure", "stream:error", "iq", "ib"}

\* The 515 reconnect task the next `go func() { Disconnect(); Connect() }` runs on.
FreeR515 == CHOOSE i \in R515Tasks : pc[i] = "none" /\ \A j \in R515Tasks : j < i => pc[j] # "none"

\* Variant: the case of code 503 is tested before the case of conflict type
\* "replaced".
handleStreamError_503First(node) ==
    /\ isLoggedIn' = FALSE
    /\ IF node.code = "515"
       THEN /\ pc' = [pc EXCEPT ![FreeR515] = "disc"]
            /\ UNCHANGED <<expectedDisconnectVal, events, storeID, storeDeletes>>
       ELSE IF node.code = "401" /\ node.conflict = "device_removed"
       THEN /\ expectedDisconnectVal' = TRUE
            /\ events' = Append(events, Event("LoggedOut", FALSE, "", TRUE, node.from))
            /\ storeDeletes' = storeDeletes + 1
            /\ storeID' = FALSE
            /\ UNCHANGED pc
       ELSE IF node.code = "503"
       THEN UNCHANGED <<pc, expectedDisconnectVal, events, storeID, storeDeletes>>
       ELSE IF node.conflict = "replaced"
       THEN /\ expectedDisconnectVal' = TRUE
            /\ events' = Append(events, Event("StreamReplaced", FALSE, "", TRUE, node.from))
            /\ UNCHANGED <<pc, storeID, storeDeletes>>
       ELSE /\ events' = Append(events, Event("StreamError", FALSE, node.code,
                                              expectedDisconnectVal, node.from))
            /\ UNCHANGED <<pc, expectedDisconnectVal, storeID, storeDeletes>>
    /\ UNCHANGED <<AutoReconnectErrors, postConnect, autoTmp, autoDelay>>

\* Variant: on device_removed the LoggedOut event is dispatched before the
\* disconnect is marked as expected.
handleStreamError_EmitFirst(node) ==
    /\ isLoggedIn' = FALSE
    /\ IF node.code = "515"
       THEN /\ pc' = [pc EXCEPT ![FreeR515] = "disc"]
            /\ UNCHANGED <<expectedDisconnectVal, events, storeID, storeDeletes>>
       ELSE IF node.code = "401" /\ node.conflict = "device_removed"
       THEN /\ expectedDisconnectVal' = TRUE
            /\ events' = Append(events, Event("LoggedOut", FALSE, "", expectedDisconnectVal,
                                              node.from))
            /\ storeDeletes' = storeDeletes + 1
            /\ storeID' = FALSE
            /\ UNCHANGED pc
       ELSE IF node.conflict = "replaced"
       THEN /\ expectedDisconnectVal' = TRUE
            /\ events' = Append(events, Event("StreamReplaced", FALSE, "", TRUE, node.from))
            /\ UNCHANGED <<pc, storeID, storeDeletes>>
       ELSE IF node.code = "503"
       THEN UNCHANGED <<pc, expectedDisconnectVal, events, storeID, storeDeletes>>
       ELSE /\ events' = Append(events, Event("StreamError", FALSE, node.code,
                                              expectedDisconnectVal, node.from))
            /\ UNCHANGED <<pc, expectedDisconnectVal, storeID, storeDeletes>>
    /\ UNCHANGED <<AutoReconnectErrors, postConnect, autoTmp, autoDelay>>

\* handleStreamError: the logged-in flag is cleared, then the first matching case.
handleStreamError(node) ==
    /\ isLoggedIn' = FALSE
    /\ IF node.code = "515"
       THEN /\ pc' = [pc EXCEPT ![FreeR515] = "disc"]
            /\ UNCHANGED <<expectedDisconnectVal, events, storeID, storeDeletes>>
       ELSE IF node.code = "401" /\ node.conflict = "device_removed"
       THEN /\ expectedDisconnectVal' = TRUE
            /\ events' = Append(events, Event("LoggedOut", FALSE, "", TRUE, node.from))
            /\ storeDeletes' = storeDeletes + 1
            /\ storeID' = FALSE
            /\ UNCHANGED pc
       ELSE IF node.conflict = "replaced"
       THEN /\ expectedDisconnectVal' = TRUE
            /\ events' = Append(events, Event("StreamReplaced", FALSE, "", TRUE, node.from))
            /\ UNCHANGED <<pc, storeID, storeDeletes>>
       ELSE IF node.code = "503"
       THEN UNCHANGED <<pc, expectedDisconnectVal, events, storeID, storeDeletes>>
       ELSE /\ events' = Append(events, Event("StreamError", FALSE, node.code,
                                              expectedDisconnectVal, node.from))
            /\ UNCHANGED <<pc, expectedDisconnectVal, storeID, storeDeletes>>
    /\ UNCHANGED <<AutoReconnectErrors, postConnect, autoTmp, autoDelay>>

\* Variant: only reason 401 marks the disconnect as expected.
handleConnectFailure_ExpectOn401(node) ==
    /\ IF node.reason = "401"
       THEN /\ expectedDisconnectVal' = TRUE
            /\ events' = Append(events, Event("LoggedOut", TRUE, "", TRUE, node.from))
            /\ storeDeletes' = storeDeletes + 1
            /\ storeID' = FALSE
       ELSE /\ events' = Append(events, Event("ConnectFailure", FALSE, node.reason,
                                              expectedDisconnectVal, node.from))
            /\ UNCHANGED <<expectedDisconnectVal, storeID, storeDeletes>>
    /\ UNCHANGED <<isLoggedIn, pc, AutoReconnectErrors, postConnect, autoTmp, autoDelay>>

\* handleConnectFailure: reason 401 logs out and deletes the store; any other
\* reason is reported as ConnectFailure; both mark the disconnect as expected.
handleConnectFailure(node) ==
    /\ expectedDisconnectVal' = TRUE
    /\ IF node.reason = "401"
       THEN /\ events' = Append(events, Event("LoggedOut", TRUE, "", TRUE, node.from))
            /\ storeDeletes' = storeDeletes + 1
            /\ storeID' = FALSE
       ELSE /\ events' = Append(events, Event("ConnectFailure", FALSE, node.reason, TRUE,
                                              node.from))
            /\ UNCHANGED <<storeID, storeDeletes>>
    /\ UNCHANGED <<isLoggedIn, pc, AutoReconnectErrors, postConnect, autoTmp, autoDelay>>

\* handleConnectSuccess: the counter is reset, the logged-in flag set, and the
\* pre-key check, SetPassive and the Connected event are left to a detached task.
PostTask(stage, prekeys, passive) == [stage |-> stage, prekeys |-> prekeys, passive |-> passive]

\* Variant: the post-connect work is done within the handler, which emits
\* Connected before it returns.
handleConnectSuccess_Inline(node) ==
    /\ AutoReconnectErrors' = 0
    /\ isLoggedIn' = TRUE
    /\ postConnect' = Append(postConnect, PostTask("done", "ok", "ok"))
    /\ events' = Append(events, Event("Connected", FALSE, "", expectedDisconnectVal, 0))
    /\ UNCHANGED <<expectedDisconnectVal, storeID, storeDeletes, pc, autoTmp, autoDelay>>

handleConnectSuccess(node) ==
    /\ AutoReconnectErrors' = 0
    /\ isLoggedIn' = TRUE
    /\ postConnect' = Append(postConnect, PostTask("prekeys", "none", "none"))
    /\ UNCHANGED <<expectedDisconnectVal, events, storeID, storeDeletes, pc, autoTmp, autoDelay>>

\* The handlers of the other tags (messages, receipts, iq, ...) touch none of the
\* state modelled here.
handleOther(node) ==
    UNCHANGED <<isLoggedIn, expectedDisconnectVal, AutoReconnectErrors, storeID,
                storeDeletes, events, pc, postConnect, autoTmp, autoDelay>>

\* cli.nodeHandlers[node.Tag](node)
RunNodeHandler(node) ==
    IF node.tag = "stream:error" THEN handleStreamError(node)
    ELSE IF node.tag = "failure" THEN handleConnectFailure(node)
    ELSE IF node.tag = "success" THEN handleConnectSuccess(node)
    ELSE handleOther(node)

\* The detached task of handleConnectSuccess ends by dispatching Connected.
PostConnectDone ==
    /\ \E k \in 1..Len(postConnect) :
            /\ postConnect[k].stage = "prekeys"
            /\ \A j \in 1..(k - 1) : postConnect[j].stage # "prekeys"
            /\ postConnect' = [postConnect EXCEPT ![k].stage = "done"]
    /\ events' = Append(events, Event("Connected", FALSE, "", expectedDisconnectVal, 0))
    /\ UNCHANGED <<connVars, flagVars, pc, result, cb, cbRemote, loop, loopNode, keepAlive,
                   autoTmp, autoDelay, frameVars, waiterVars, dispVars, callVars>>

\* The detached task of handleConnectSuccess, step by step. The pre-key counts
\* are read and the pre-keys uploaded if needed: an error is logged.
PostPreKeys(k, ok) ==
    /\ k \in 1..Len(postConnect)
    /\ postConnect[k].stage = "prekeys"
    /\ postConnect' = [postConnect EXCEPT ![k] =
                            PostTask("passive", IF ok THEN "ok" ELSE "failed", "none")]
    /\ UNCHANGED <<connVars, flagVars, pc, result, cb, cbRemote, loop, loopNode, keepAlive,
                   autoTmp, autoDelay, frameVars, waiterVars, events, dispVars, callVars>>

\* cli.SetPassive(false): an error is logged.
PostPassive(k, ok) ==
    /\ k \in 1..Len(postConnect)
    /\ postConnect[k].stage = "passive"
    /\ postConnect' = [postConnect EXCEPT ![k].stage = "emit",
                                          ![k].passive = IF ok THEN "ok" ELSE "failed"]
    /\ UNCHANGED <<connVars, flagVars, pc, result, cb, cbRemote, loop, loopNode, keepAlive,
                   autoTmp, autoDelay, frameVars, waiterVars, events, dispVars, callVars>>

\* cli.dispatchEvent(&events.Connected{})
PostEmit(k) ==
    /\ k \in 1..Len(postConnect)
    /\ postConnect[k].stage = "emit"
    /\ postConnect' = [postConnect EXCEPT ![k].stage = "done"]
    /\ events' = Append(events, Event("Connected", FALSE, "", expectedDisconnectVal, 0))
    /\ UNCHANGED <<connVars, flagVars, pc, result, cb, cbRemote, loop, loopNode, keepAlive,
                   autoTmp, autoDelay, frameVars, waiterVars, dispVars, callVars>>

\* ---------------------------------------------------------------- handlerQueueLoop

\* handlerQueueLoop: a node is received from the queue ...
LoopTake(s) ==
    /\ loop[s] = "idle"
    /\ handlerQueue # <<>>
    /\ loopNode' = [loopNode EXCEPT ![s] = Head(handlerQueue)]
    /\ handlerQueue' = Tail(handlerQueue)
    /\ loop' = [loop EXCEPT ![s] = "busy"]
    /\ UNCHANGED <<connVars, flagVars, pc, result, cb, cbRemote, keepAlive, postConnect, autoTmp, autoDelay,
                   overflow, framesRecv, dropped, handled, enqueued, waiterVars, events,
                   dispVars, callVars>>

\* ... and its handler runs, on the loop's own task.
LoopHandle(s) ==
    /\ loop[s] = "busy"
    /\ RunNodeHandler(loopNode[s])
    /\ handled' = Append(handled, loopNode[s])
    /\ loopNode' = [loopNode EXCEPT ![s] = NoNode]
    /\ loop' = [loop EXCEPT ![s] = "idle"]
    /\ UNCHANGED <<connVars, EnableAutoReconnect, result, cb, cbRemote, keepAlive,
                   handlerQueue, overflow, framesRecv, dropped, enqueued, waiterVars,
                   dispVars, callVars>>

\* handlerQueueLoop returns once the context of its socket is done.
LoopExit(s) ==
    /\ loop[s] = "idle"
    /\ s \notin nsOpen
    /\ loop' = [loop EXCEPT ![s] = "done"]
    /\ UNCHANGED <<connVars, flagVars, pc, result, cb, cbRemote, loopNode, keepAlive,
                   postConnect, autoTmp, autoDelay, frameVars, waiterVars, events, dispVars, callVars>>

\* keepAliveLoop runs on the context of its socket: it has been started and the
\* context is not done.
KeepAliveRunning == keepAlive \cap nsOpen

\* ---------------------------------------------------------------- handleFrame

\* A frame: whether the codec decodes it, and the node it decodes to.
Frame(node) == [decodes |-> TRUE, node |-> node]
BadFrame == [decodes |-> FALSE, node |-> NoNode]

\* receiveResponse(node): the node carries the identifier of an outstanding waiter.
receiveResponse(node) == node.id \in responseWaiters

\* Nodes with code 515 not yet handled, and reconnect tasks already started.
Pending515 ==
    Cardinality({i \in 1..Len(handlerQueue) : handlerQueue[i].code = "515"})
    + Cardinality({i \in 1..Len(overflow) : overflow[i].code = "515"})
    + Cardinality({s \in Sockets : loopNode[s].code = "515"})
    + Cardinality({i \in R515Tasks : pc[i] # "none"})

\* Variant: the handler table is consulted before the response waiters.
handleFrame_RouteFirst(f) ==
    /\ framesRecv' = framesRecv + 1
    /\ IF ~f.decodes
       THEN /\ dropped' = dropped + 1
            /\ UNCHANGED <<handlerQueue, overflow, enqueued, responseWaiters, delivery>>
       ELSE IF f.node.tag = "xmlstreamend"
       THEN /\ dropped' = dropped + 1
            /\ UNCHANGED <<handlerQueue, overflow, enqueued, responseWaiters, delivery>>
       ELSE IF f.node.tag \in NodeHandlerTags
       THEN /\ IF Len(handlerQueue) < QueueCap
               THEN /\ handlerQueue' = Append(handlerQueue, f.node)
                    /\ enqueued' = Append(enqueued, f.node)
                    /\ UNCHANGED overflow
               ELSE /\ overflow' = Append(overflow, f.node)
                    /\ UNCHANGED <<handlerQueue, enqueued>>
            /\ UNCHANGED <<dropped, responseWaiters, delivery>>
       ELSE IF receiveResponse(f.node)
       THEN /\ delivery' = [delivery EXCEPT ![f.node.id] =
                                        Append(@, Delivered("reply", f.node.tag))]
            /\ responseWaiters' = responseWaiters \ {f.node.id}
            /\ UNCHANGED <<handlerQueue, overflow, enqueued, dropped>>
       ELSE /\ dropped' = dropped + 1
            /\ UNCHANGED <<handlerQueue, overflow, enqueued, responseWaiters, delivery>>
    /\ UNCHANGED <<connVars, flagVars, taskVars, handled, nextReq, events, dispVars, callVars>>

\* Variant: a node that finds the queue full is discarded.
handleFrame_DropWhenFull(f) ==
    /\ framesRecv' = framesRecv + 1
    /\ IF ~f.decodes
       THEN /\ dropped' = dropped + 1
            /\ UNCHANGED <<handlerQueue, overflow, enqueued, responseWaiters, delivery>>
       ELSE IF f.node.tag = "xmlstreamend"
       THEN /\ dropped' = dropped + 1
            /\ UNCHANGED <<handlerQueue, overflow, enqueued, responseWaiters, delivery>>
       ELSE IF receiveResponse(f.node)
       THEN /\ delivery' = [delivery EXCEPT ![f.node.id] =
                                        Append(@, Delivered("reply", f.node.tag))]
            /\ responseWaiters' = responseWaiters \ {f.node.id}
            /\ UNCHANGED <<handlerQueue, overflow, enqueued, dropped>>
       ELSE IF f.node.tag \in NodeHandlerTags /\ Len(handlerQueue) < QueueCap
       THEN /\ handlerQueue' = Append(handlerQueue, f.node)
            /\ enqueued' = Append(enqueued, f.node)
            /\ UNCHANGED <<overflow, dropped, responseWaiters, delivery>>
       ELSE /\ dropped' = dropped + 1
            /\ UNCHANGED <<handlerQueue, overflow, enqueued, responseWaiters, delivery>>
    /\ UNCHANGED <<connVars, flagVars, taskVars, handled, nextReq, events, dispVars, callVars>>

\* Variant: a node that no waiter takes is put on the handler queue whether its
\* tag has a handler or not.
handleFrame_NoTableTest(f) ==
    /\ framesRecv' = framesRecv + 1
    /\ IF ~f.decodes
       THEN /\ dropped' = dropped + 1
            /\ UNCHANGED <<handlerQueue, overflow, enqueued, responseWaiters, delivery>>
       ELSE IF f.node.tag = "xmlstreamend"
       THEN /\ dropped' = dropped + 1
            /\ UNCHANGED <<handlerQueue, overflow, enqueued, responseWaiters, delivery>>
       ELSE IF receiveResponse(f.node)
       THEN /\ delivery' = [delivery EXCEPT ![f.node.id] =
                                        Append(@, Delivered("reply", f.node.tag))]
            /\ responseWaiters' = responseWaiters \ {f.node.id}
            /\ UNCHANGED <<handlerQueue, overflow, enqueued, dropped>>
       ELSE /\ IF Len(handlerQueue) < QueueCap
               THEN /\ handlerQueue' = Append(handlerQueue, f.node)
                    /\ enqueued' = Append(enqueued, f.node)
                    /\ UNCHANGED overflow
               ELSE /\ overflow' = Append(overflow, f.node)
                    /\ UNCHANGED <<handlerQueue, enqueued>>
            /\ UNCHANGED <<dropped, responseWaiters, delivery>>
    /\ UNCHANGED <<connVars, flagVars, taskVars, handled, nextReq, events, dispVars, callVars>>

\* handleFrame(data)
handleFrame(f) ==
    /\ framesRecv' = framesRecv + 1
    /\ IF ~f.decodes
       THEN /\ dropped' = dropped + 1
            /\ UNCHANGED <<handlerQueue, overflow, enqueued, responseWaiters, delivery>>
       ELSE IF f.node.tag = "xmlstreamend"
       THEN /\ dropped' = dropped + 1
            /\ UNCHANGED <<handlerQueue, overflow, enqueued, responseWaiters, delivery>>
       ELSE IF receiveResponse(f.node)
       THEN /\ delivery' = [delivery EXCEPT ![f.node.id] =
                                        Append(@, Delivered("reply", f.node.tag))]
            /\ responseWaiters' = responseWaiters \ {f.node.id}
            /\ UNCHANGED <<handlerQueue, overflow, enqueued, dropped>>
       ELSE IF f.node.tag \in NodeHandlerTags
       THEN /\ IF Len(handlerQueue) < QueueCap
               THEN /\ handlerQueue' = Append(handlerQueue, f.node)
                    /\ enqueued' = Append(enqueued, f.node)
                    /\ UNCHANGED overflow
               ELSE /\ overflow' = Append(overflow, f.node)
                    /\ UNCHANGED <<handlerQueue, enqueued>>
            /\ UNCHANGED <<dropped, responseWaiters, delivery>>
       ELSE /\ dropped' = dropped + 1
            /\ UNCHANGED <<handlerQueue, overflow, enqueued, responseWaiters, delivery>>
    /\ UNCHANGED <<connVars, flagVars, taskVars, handled, nextReq, events, dispVars, callVars>>

\* The frame reader of a socket that is up and not stopped passes a frame to
\* handleFrame.
RecvFrame(s, f) ==
    /\ s \in nsOpen
    /\ s \notin nsDestroyed
    /\ f.node.code = "515" => Pending515 < Max515
    /\ handleFrame([f EXCEPT !.node.from = s, !.node.seq = framesRecv + 1])

\* The detached sender of handleFrame's full-queue branch gets its node in.
OverflowSend(i) ==
    /\ i \in 1..Len(overflow)
    /\ Len(handlerQueue) < QueueCap
    /\ handlerQueue' = Append(handlerQueue, overflow[i])
    /\ enqueued' = Append(enqueued, overflow[i])
    /\ overflow' = [j \in 1..(Len(overflow) - 1) |->
                        IF j < i THEN overflow[j] ELSE overflow[j + 1]]
    /\ UNCHANGED <<connVars, flagVars, taskVars, framesRecv, dropped, handled,
                   waiterVars, events, dispVars, callVars>>

\* ---------------------------------------------------------------- send-and-wait

\* A request is sent with a fresh identifier and a waiter registered for it;
\* sendNode needs a stored socket (read under the lock).
SendRequest ==
    /\ nextReq < MaxReq
    /\ socketLock = {}
    /\ socket # 0
    /\ nextReq' = nextReq + 1
    /\ responseWaiters' = responseWaiters \cup {nextReq + 1}
    /\ UNCHANGED <<connVars, flagVars, taskVars, frameVars, delivery, events, dispVars, callVars>>

\* Variant: the timeout is reported to the caller but the waiter is left in the
\* registry.
WaiterTimeout_KeepWaiter(i) ==
    /\ i \in responseWaiters
    /\ delivery' = [delivery EXCEPT ![i] = Append(@, Delivered("timeout", ""))]
    /\ UNCHANGED <<connVars, flagVars, taskVars, frameVars, responseWaiters, nextReq, events,
                   dispVars, callVars>>

\* The wait of a request times out: its waiter is removed.
WaiterTimeout(i) ==
    /\ i \in responseWaiters
    /\ responseWaiters' = responseWaiters \ {i}
    /\ delivery' = [delivery EXCEPT ![i] = Append(@, Delivered("timeout", ""))]
    /\ UNCHANGED <<connVars, flagVars, taskVars, frameVars, nextReq, events, dispVars, callVars>>

\* ---------------------------------------------------------------- Disconnect by the application

\* Disconnect() called by the application when its own Connect() calls have
\* returned: the unlocked test of cli.socket, nil makes it return at once.
UserDisconnectCheck ==
    /\ userDisconnect = "idle"
    /\ pc[UserTask] = "idle"
    /\ userDisconnect' = IF socket = 0 THEN "returned" ELSE "disc_lock"
    /\ UNCHANGED <<connVars, flagVars, taskVars, frameVars, waiterVars, events, dispVars,
                   readVars, rmResult, logoutVars>>

\* Disconnect() called by the application, the region under socketLock, and
\* its return.
UserDisconnectLocked ==
    /\ userDisconnect = "disc_lock"
    /\ socketLock = {}
    /\ unlockedDisconnect
    /\ userDisconnect' = "returned"
    /\ UNCHANGED <<socketLock, nsCreated, hsFails, flagVars, taskVars, frameVars, waiterVars,
                   events, dispVars, readVars, rmResult, logoutVars>>

\* Connect() called by the application, which does not call it again after its
\* Disconnect().
UserConnectBegin == userDisconnect = "idle" /\ ConnectBegin(UserTask)

\* ---------------------------------------------------------------- Logout

\* Logout(), the test of cli.Store.ID: without an identity it returns
\* ErrNotLoggedIn; otherwise it calls sendIQ.
LogoutBegin ==
    /\ lopc = "idle"
    /\ IF ~storeID
       THEN /\ loResult' = "ErrNotLoggedIn"
            /\ lopc' = "done"
            /\ UNCHANGED logoutCalls
       ELSE /\ logoutCalls' = Append(logoutCalls, "sendIQ")
            /\ lopc' = "send"
            /\ UNCHANGED loResult
    /\ UNCHANGED <<connVars, flagVars, taskVars, frameVars, waiterVars, events, dispVars,
                   readVars, rmResult, userDisconnect>>

\* Logout(), sendIQ sends the request with sendNode: the handle is read under
\* the read lock; without a socket the error is returned to Logout, which
\* returns it wrapped.
LogoutSend ==
    /\ lopc = "send"
    /\ socketLock = {}
    /\ IF socket = 0
       THEN /\ loResult' = "request_error"
            /\ lopc' = "done"
       ELSE /\ lopc' = "wait"
            /\ UNCHANGED loResult
    /\ UNCHANGED <<connVars, flagVars, taskVars, frameVars, waiterVars, events, dispVars,
                   readVars, rmResult, userDisconnect, logoutCalls>>

\* Variant: a failed request does not end Logout, it goes on to disconnect.
LogoutRequestFailed_Force ==
    /\ lopc = "wait"
    /\ loResult' = "request_error"
    /\ lopc' = "disc"
    /\ UNCHANGED <<connVars, flagVars, taskVars, frameVars, waiterVars, events, dispVars,
                   readVars, rmResult, userDisconnect, logoutCalls>>

\* Logout(), sendIQ returned an error (the send failed, the wait timed out, the
\* connection closed, the server answered with an error): Logout returns it
\* wrapped.
LogoutRequestFailed ==
    /\ lopc = "wait"
    /\ loResult' = "request_error"
    /\ lopc' = "done"
    /\ UNCHANGED <<connVars, flagVars, taskVars, frameVars, waiterVars, events, dispVars,
                   readVars, rmResult, userDisconnect, logoutCalls>>

\* Logout(), sendIQ returned the reply: Logout calls Disconnect().
LogoutReplied ==
    /\ lopc = "wait"
    /\ lopc' = "disc"
    /\ UNCHANGED <<connVars, flagVars, taskVars, frameVars, waiterVars, events, dispVars,
                   readVars, rmResult, userDisconnect, loResult, logoutCalls>>

\* Logout(), cli.Disconnect(), the unlocked test of cli.socket.
LogoutDisconnectCheck ==
    /\ lopc = "disc"
    /\ logoutCalls' = Append(logoutCalls, "Disconnect")
    /\ lopc' = IF socket = 0 THEN "delete" ELSE "disc_lock"
    /\ UNCHANGED <<connVars, flagVars, taskVars, frameVars, waiterVars, events, dispVars,
                   readVars, rmResult, userDisconnect, loResult>>

\* Logout(), cli.Disconnect(), the region under socketLock.
LogoutDisconnectLocked ==
    /\ lopc = "disc_lock"
    /\ socketLock = {}
    /\ unlockedDisconnect
    /\ lopc' = "delete"
    /\ UNCHANGED <<socketLock, nsCreated, hsFails, flagVars, taskVars, frameVars, waiterVars,
                   events, dispVars, readVars, rmResult, userDisconnect, loResult, logoutCalls>>

\* Logout(), cli.Store.Delete(): an error is returned wrapped, otherwise nil.
LogoutDelete(ok) ==
    /\ lopc = "delete"
    /\ logoutCalls' = Append(logoutCalls, "Store.Delete")
    /\ storeDeletes' = storeDeletes + 1
    /\ storeID' = IF ok THEN FALSE ELSE storeID
    /\ loResult' = IF ok THEN "nil" ELSE "delete_error"
    /\ lopc' = "done"
    /\ UNCHANGED <<connVars, isLoggedIn, expectedDisconnectVal, EnableAutoReconnect,
                   AutoReconnectErrors, taskVars, frameVars, waiterVars, events, dispVars,
                   readVars, rmResult, userDisconnect>>

\* ---------------------------------------------------------------- event handlers

\* What a registered handler function does when it is called: it returns, or it
\* panics.
HandlerFns == {"returns", "panics"}

otherVars == <<connVars, flagVars, taskVars, frameVars, waiterVars, events, callVars>>

\* Variant: the id is the place the handler will take in the list.
AddGetID_Slot(fn) ==
    /\ Len(eventHandlers) < MaxHandlers
    /\ nextHandlerID' = Len(eventHandlers) + 1
    /\ adding' = adding \cup {[id |-> nextHandlerID', fn |-> fn]}
    /\ UNCHANGED <<eventHandlers, eventHandlersLock, dpc, dlist, dpos, invoked, removed,
                   removing, otherVars>>

\* AddEventHandler, atomic.AddUint32(&nextHandlerID, 1): the call gets its id.
AddGetID(fn) ==
    /\ nextHandlerID < MaxHandlers
    /\ nextHandlerID' = nextHandlerID + 1
    /\ adding' = adding \cup {[id |-> nextHandlerID', fn |-> fn]}
    /\ UNCHANGED <<eventHandlers, eventHandlersLock, dpc, dlist, dpos, invoked, removed,
                   removing, otherVars>>

\* AddEventHandler, under the write lock: the handler is appended.
AddAppend(h) ==
    /\ h \in adding
    /\ eventHandlersLock = {}
    /\ eventHandlers' = Append(eventHandlers, h)
    /\ adding' = adding \ {h}
    /\ UNCHANGED <<nextHandlerID, eventHandlersLock, dpc, dlist, dpos, invoked, removed,
                   removing, otherVars>>

\* The index of the first handler with this id, 0 when there is none.
IndexOf(list, id) ==
    IF \E k \in 1..Len(list) : list[k].id = id
    THEN CHOOSE k \in 1..Len(list) :
            list[k].id = id /\ \A j \in 1..(k - 1) : list[j].id # id
    ELSE 0

\* Variant: the tail is not copied down, the slice is only shortened by one.
RemoveAt_NoCopy(list, index) ==
    IF index = 1
    THEN SubSeq(list, 2, Len(list))
    ELSE SubSeq(list, 1, Len(list) - 1)

\* The slice RemoveEventHandler leaves when it finds the id at `index`: the
\* head is sliced off; otherwise the tail is copied down one place (unless it
\* is the last element) and the slice shortened by one.
RemoveAt(list, index) ==
    IF index = 1
    THEN SubSeq(list, 2, Len(list))
    ELSE LET copied == IF index < Len(list)
                       THEN [j \in 1..Len(list) |->
                                IF j >= index /\ j < Len(list) THEN list[j + 1] ELSE list[j]]
                       ELSE list
         IN  SubSeq(copied, 1, Len(list) - 1)

\* RemoveEventHandler(id), under the write lock.
RemoveEventHandler(id) ==
    /\ eventHandlersLock = {}
    /\ LET index == IndexOf(eventHandlers, id)
       IN  IF index # 0
           THEN /\ eventHandlers' = RemoveAt(eventHandlers, index)
                /\ removed' = removed \cup {id}
                /\ rmResult' = "true"
           ELSE /\ rmResult' = "false"
                /\ UNCHANGED <<eventHandlers, removed>>
    /\ UNCHANGED <<nextHandlerID, eventHandlersLock, dpc, dlist, dpos, invoked, adding,
                   removing, connVars, flagVars, taskVars, frameVars, waiterVars, events, readVars, logoutVars, userDisconnect>>

\* RemoveEventHandlers(), under the write lock.
RemoveEventHandlers ==
    /\ eventHandlersLock = {}
    /\ eventHandlers' = <<>>
    /\ UNCHANGED <<nextHandlerID, eventHandlersLock, dpc, dlist, dpos, invoked, removed,
                   adding, removing, otherVars>>

\* Variant: the range loop runs on a copy of the slice and the read lock is not
\* kept during the calls.
DispatchBegin_Snapshot(d) ==
    /\ dpc[d] = "none"
    /\ dlist' = [dlist EXCEPT ![d] = eventHandlers]
    /\ dpos' = [dpos EXCEPT ![d] = 1]
    /\ dpc' = [dpc EXCEPT ![d] = "run"]
    /\ UNCHANGED <<eventHandlers, nextHandlerID, eventHandlersLock, invoked, removed, adding,
                   removing, otherVars>>

\* dispatchEvent(evt): the read lock is taken and the range loop starts on the
\* slice as it is now.
DispatchBegin(d) ==
    /\ dpc[d] = "none"
    /\ eventHandlersLock' = eventHandlersLock \cup {d}
    /\ dlist' = [dlist EXCEPT ![d] = eventHandlers]
    /\ dpos' = [dpos EXCEPT ![d] = 1]
    /\ dpc' = [dpc EXCEPT ![d] = "run"]
    /\ UNCHANGED <<eventHandlers, nextHandlerID, invoked, removed, adding, removing,
                   otherVars>>

\* A RemoveEventHandler(id) call made by a handler: by the task of dispatch d
\* itself (by = d), or by a task the handler started for it (by = 0).
RemoveCall(by, id) == [by |-> by, id |-> id]

\* dispatchEvent(evt), handler.fn(evt): a handler that returns lets the loop go
\* on; a panic unwinds dispatchEvent, whose deferred function releases the read
\* lock, recovers and logs, and dispatchEvent returns. A handler that calls
\* RemoveEventHandler with its own id is inside that call until it returns; one
\* that starts a task for the call returns at once.
DispatchInvoke(d) ==
    /\ dpc[d] = "run"
    /\ dpos[d] <= Len(dlist[d])
    /\ invoked' = Append(invoked, [d |-> d, id |-> dlist[d][dpos[d]].id])
    /\ CASE dlist[d][dpos[d]].fn = "panics" ->
                /\ eventHandlersLock' = eventHandlersLock \ {d}
                /\ dpc' = [dpc EXCEPT ![d] = "recovered"]
                /\ UNCHANGED <<dpos, removing>>
         [] dlist[d][dpos[d]].fn = "removes" ->
                /\ removing' = removing \cup {RemoveCall(d, dlist[d][dpos[d]].id)}
                /\ dpc' = [dpc EXCEPT ![d] = "in_handler"]
                /\ UNCHANGED <<eventHandlersLock, dpos>>
         [] dlist[d][dpos[d]].fn = "spawns" ->
                /\ removing' = removing \cup {RemoveCall(0, dlist[d][dpos[d]].id)}
                /\ dpos' = [dpos EXCEPT ![d] = dpos[d] + 1]
                /\ UNCHANGED <<eventHandlersLock, dpc>>
         [] OTHER ->
                /\ dpos' = [dpos EXCEPT ![d] = dpos[d] + 1]
                /\ UNCHANGED <<eventHandlersLock, dpc, removing>>
    /\ UNCHANGED <<eventHandlers, nextHandlerID, dlist, removed, adding, otherVars>>

\* RemoveEventHandler(id) called by a handler, under the write lock; when the
\* call was made by the dispatching task itself, the handler returns after it
\* and the loop goes on.
RemoveInHandler(r) ==
    /\ r \in removing
    /\ eventHandlersLock = {}
    /\ removing' = removing \ {r}
    /\ LET index == IndexOf(eventHandlers, r.id)
       IN  IF index # 0
           THEN /\ eventHandlers' = RemoveAt(eventHandlers, index)
                /\ removed' = removed \cup {r.id}
                /\ rmResult' = "true"
           ELSE /\ rmResult' = "false"
                /\ UNCHANGED <<eventHandlers, removed>>
    /\ IF r.by # 0
       THEN /\ dpc' = [dpc EXCEPT ![r.by] = "run"]
            /\ dpos' = [dpos EXCEPT ![r.by] = dpos[r.by] + 1]
       ELSE UNCHANGED <<dpc, dpos>>
    /\ UNCHANGED <<nextHandlerID, eventHandlersLock, dlist, invoked, adding,
                   connVars, flagVars, taskVars, frameVars, waiterVars, events, readVars, logoutVars, userDisconnect>>

\* dispatchEvent(evt), the loop is over: the deferred function releases the lock.
DispatchEnd(d) ==
    /\ dpc[d] = "run"
    /\ dpos[d] > Len(dlist[d])
    /\ eventHandlersLock' = eventHandlersLock \ {d}
    /\ dpc' = [dpc EXCEPT ![d] = "done"]
    /\ UNCHANGED <<eventHandlers, nextHandlerID, dlist, dpos, invoked, removed, adding,
                   removing, otherVars>>

\* ---------------------------------------------------------------- specifications

StreamError(code, conflict) == Node("stream:error", 0, code, conflict, "")
Reply(i) == Node("iq", i, "", "", "")

\* The frames of the connection life cycle.
ConnFrames ==
    {Frame(StreamError("515", "")), Frame(StreamError("", "replaced"))}
    \cup {Frame(Reply(i)) : i \in ReqIds}

ConnRecvFrame(s, f) == framesRecv < MaxConnFrames /\ RecvFrame(s, f)

Lifecycle ==
    \/ \E t \in Tasks : ConnectBegin(t)
    \/ \E t \in Tasks : ConnectFail(t)
    \/ \E t \in Tasks : ConnectOK(t)
    \/ \E t \in Tasks : DisconnectCheck(t)
    \/ \E t \in Tasks : DisconnectLocked(t)
    \/ \E s \in Sockets, remote \in BOOLEAN : ChannelClosed(s, remote)
    \/ \E s \in Sockets : OnDisconnectStop(s)
    \/ \E s \in Sockets : OnDisconnectLocked(s)
    \/ \E t \in AutoTasks : AutoStart(t)
    \/ \E t \in AutoTasks : AutoLoad(t)
    \/ \E t \in AutoTasks : AutoIter(t)
    \/ \E s \in Sockets : LoopTake(s)
    \/ \E s \in Sockets : LoopHandle(s)
    \/ \E s \in Sockets : LoopExit(s)

\* The connection life cycle: Connect and Disconnect from the user, closures of
\* the channel, the reconnect tasks, one stream error or reply, requests.
Next ==
    \/ Lifecycle
    \/ \E s \in Sockets, f \in ConnFrames : ConnRecvFrame(s, f)
    \/ SendRequest
    \/ \E i \in ReqIds : WaiterTimeout(i)

Spec == Init /\ [][Next]_vars


\* The frames of the frame pipeline: an undecodable frame, and nodes with a
\* routable tag, the stream-end tag or a tag without handler, each with no
\* request identifier or with one.
PipeFrames ==
    {BadFrame} \cup
    {Frame(Node(tag, i, "", "", "")) :
        tag \in {"iq", "message", "xmlstreamend", "unknown"}, i \in {0} \cup ReqIds}

PipeRecvFrame(s, f) == framesRecv < MaxFrames /\ RecvFrame(s, f)

\* The frame pipeline of one connection: the user connects, frames arrive, the
\* handler queue loop dispatches, requests are sent and time out.
NextFrames ==
    \/ ConnectBegin(UserTask)
    \/ ConnectFail(UserTask)
    \/ ConnectOK(UserTask)
    \/ \E s \in Sockets, f \in PipeFrames : PipeRecvFrame(s, f)
    \/ \E i \in 1..MaxFrames : OverflowSend(i)
    \/ \E s \in Sockets : LoopTake(s)
    \/ \E s \in Sockets : LoopHandle(s)
    \/ SendRequest
    \/ \E i \in ReqIds : WaiterTimeout(i)

SpecFrames == Init /\ [][NextFrames]_vars

\* The frame pipeline with its tasks scheduled: the handler queue loop keeps
\* receiving and handling, and a detached sender blocked on the full queue gets
\* its node in once there is room.
SpecFramesFair ==
    /\ SpecFrames
    /\ WF_vars(\E s \in Sockets : LoopTake(s))
    /\ WF_vars(\E s \in Sockets : LoopHandle(s))
    /\ WF_vars(\E i \in 1..MaxFrames : OverflowSend(i))

\* The stream-error nodes (every code with every conflict type) and the
\* connect-failure nodes.
Codes == {"515", "401", "503", "500"}
Conflicts == {"", "device_removed", "replaced", "other"}
ConnectFailure(reason) == Node("failure", 0, "", "", reason)
ClassifyFrames ==
    {Frame(StreamError(code, conflict)) : code \in Codes, conflict \in Conflicts}
    \cup {Frame(ConnectFailure(reason)) : reason \in {"401", "500"}}

ClassRecvFrame(s, f) == framesRecv < MaxClassFrames /\ RecvFrame(s, f)

\* The failure classifier: the user connects, stream-error and connect-failure
\* nodes arrive and are handled, the 515 reconnect task runs.
NextClassify ==
    \/ \E t \in R515Tasks \cup {UserTask} : ConnectBegin(t)
    \/ \E t \in R515Tasks \cup {UserTask} : ConnectOK(t)
    \/ \E t \in R515Tasks : DisconnectCheck(t)
    \/ \E t \in R515Tasks : DisconnectLocked(t)
    \/ \E s \in Sockets, f \in ClassifyFrames : ClassRecvFrame(s, f)
    \/ \E i \in 1..MaxClassFrames : OverflowSend(i)
    \/ \E s \in Sockets : LoopTake(s)
    \/ \E s \in Sockets : LoopHandle(s)
    \/ \E s \in Sockets : LoopExit(s)

SpecClassify == Init /\ [][NextClassify]_vars

\* The nodes after which a closure of the channel is expected, and the 503 stream
\* error, after which it is not.
ExpectedFrames ==
    {Frame(StreamError("401", "device_removed")), Frame(StreamError("", "replaced")),
     Frame(StreamError("503", "")),
     Frame(ConnectFailure("401")), Frame(ConnectFailure("500"))}

ExpectedRecvFrame(s, f) == framesRecv < MaxConnFrames /\ RecvFrame(s, f)

\* The connection life cycle around a failure the classifier marks as expected.
NextExpected ==
    \/ Lifecycle
    \/ \E s \in Sockets, f \in ExpectedFrames : ExpectedRecvFrame(s, f)

SpecExpected == Init /\ [][NextExpected]_vars

\* Nodes with a routable tag and no request identifier.
QueueFrames == {Frame(Node(tag, 0, "", "", "")) : tag \in {"message", "receipt"}}

QueueRecvFrame(s, f) == framesRecv < MaxFrames /\ RecvFrame(s, f)

\* The handler queue across connections: the user connects and disconnects,
\* routable nodes arrive, the handler queue loops of the sockets dispatch them.
NextQueue ==
    \/ ConnectBegin(UserTask)
    \/ ConnectOK(UserTask)
    \/ DisconnectCheck(UserTask)
    \/ DisconnectLocked(UserTask)
    \/ \E s \in Sockets, f \in QueueFrames : QueueRecvFrame(s, f)
    \/ \E i \in 1..MaxFrames : OverflowSend(i)
    \/ \E s \in Sockets : LoopTake(s)
    \/ \E s \in Sockets : LoopHandle(s)
    \/ \E s \in Sockets : LoopExit(s)

SpecQueue == Init /\ [][NextQueue]_vars

\* The nodes that set and clear the logged-in flag.
Success == Node("success", 0, "", "", "")
LoginFrames == {Frame(Success), Frame(StreamError("503", "")), Frame(StreamError("500", ""))}

LoginRecvFrame(s, f) == framesRecv < MaxLoginFrames /\ RecvFrame(s, f)

\* The logged-in flag: the user connects and disconnects, the channel closes,
\* success and stream-error nodes arrive and are handled, the post-connect task
\* of a success node ends.
NextLogin ==
    \/ ConnectBegin(UserTask)
    \/ ConnectOK(UserTask)
    \/ DisconnectCheck(UserTask)
    \/ DisconnectLocked(UserTask)
    \/ \E s \in Sockets, remote \in BOOLEAN : ChannelClosed(s, remote)
    \/ \E s \in Sockets : OnDisconnectStop(s)
    \/ \E s \in Sockets : OnDisconnectLocked(s)
    \/ \E s \in Sockets, f \in LoginFrames : LoginRecvFrame(s, f)
    \/ \E i \in 1..MaxLoginFrames : OverflowSend(i)
    \/ \E s \in Sockets : LoopTake(s)
    \/ \E s \in Sockets : LoopHandle(s)
    \/ \E s \in Sockets : LoopExit(s)
    \/ PostConnectDone

SpecLogin == Init /\ [][NextLogin]_vars

ReconnectRecvFrame(s, f) == framesRecv < MaxConnFrames /\ RecvFrame(s, f)

\* Auto-reconnect: the server closes the channel, the auto-reconnect tasks run
\* while the user may connect as well and may switch the feature off and on; a
\* success node may arrive and be handled.
NextReconnect ==
    \/ \E t \in {UserTask} \cup AutoTasks : ConnectBegin(t)
    \/ \E t \in {UserTask} \cup AutoTasks : ConnectFail(t)
    \/ \E t \in {UserTask} \cup AutoTasks : ConnectOK(t)
    \/ \E s \in Sockets : ChannelClosed(s, TRUE)
    \/ \E s \in Sockets : OnDisconnectStop(s)
    \/ \E s \in Sockets : OnDisconnectLocked(s)
    \/ \E t \in AutoTasks : AutoStart(t)
    \/ \E t \in AutoTasks : AutoLoad(t)
    \/ \E t \in AutoTasks : AutoIter(t)
    \/ \E b \in BOOLEAN : SetEnableAutoReconnect(b)
    \/ \E s \in Sockets : ReconnectRecvFrame(s, Frame(Success))
    \/ \E s \in Sockets : LoopTake(s)
    \/ \E s \in Sockets : LoopHandle(s)
    \/ \E s \in Sockets : LoopExit(s)

SpecReconnect == Init /\ [][NextReconnect]_vars

\* Auto-reconnect with its tasks scheduled: a task in its loop goes on to the
\* increment, the sleep and the next Connect().
SpecReconnectFair ==
    /\ SpecReconnect
    /\ \A t \in AutoTasks : WF_vars(AutoLoad(t)) /\ WF_vars(AutoIter(t))

\* The read-only checks: the user connects and disconnects, the channel closes,
\* a success node may be handled, and the application calls IsConnected() and
\* IsLoggedIn() at any time.
NextReaders ==
    \/ ConnectBegin(UserTask)
    \/ ConnectFail(UserTask)
    \/ ConnectOK(UserTask)
    \/ DisconnectCheck(UserTask)
    \/ DisconnectLocked(UserTask)
    \/ \E s \in Sockets, remote \in BOOLEAN : ChannelClosed(s, remote)
    \/ \E s \in Sockets : OnDisconnectStop(s)
    \/ \E s \in Sockets : OnDisconnectLocked(s)
    \/ \E s \in Sockets : ReconnectRecvFrame(s, Frame(Success))
    \/ \E s \in Sockets : LoopTake(s)
    \/ \E s \in Sockets : LoopHandle(s)
    \/ IsConnectedBegin
    \/ IsConnectedRead
    \/ IsLoggedInCall

SpecReaders == Init /\ [][NextReaders]_vars

\* The event dispatcher: handlers are added and removed while events are
\* dispatched.
NextDispatch ==
    \/ \E fn \in HandlerFns : AddGetID(fn)
    \/ \E h \in adding : AddAppend(h)
    \/ \E id \in 1..(MaxHandlers + 1) : RemoveEventHandler(id)
    \/ RemoveEventHandlers
    \/ \E d \in Dispatches : DispatchBegin(d)
    \/ \E d \in Dispatches : DispatchInvoke(d)
    \/ \E d \in Dispatches : DispatchEnd(d)

SpecDispatch == Init /\ [][NextDispatch]_vars

\* Success nodes and other nodes arrive and are handled; the detached tasks of
\* the success nodes run step by step, and each of them takes its next step in
\* the end.
NextSuccess ==
    \/ ConnectBegin(UserTask)
    \/ ConnectOK(UserTask)
    \/ \E s \in Sockets, f \in LoginFrames : LoginRecvFrame(s, f)
    \/ \E i \in 1..MaxLoginFrames : OverflowSend(i)
    \/ \E s \in Sockets : LoopTake(s)
    \/ \E s \in Sockets : LoopHandle(s)
    \/ \E k \in 1..MaxLoginFrames, ok \in BOOLEAN : PostPreKeys(k, ok)
    \/ \E k \in 1..MaxLoginFrames, ok \in BOOLEAN : PostPassive(k, ok)
    \/ \E k \in 1..MaxLoginFrames : PostEmit(k)

SpecSuccess ==
    /\ Init
    /\ [][NextSuccess]_vars
    /\ \A k \in 1..MaxLoginFrames :
            /\ WF_vars(\E ok \in BOOLEAN : PostPreKeys(k, ok))
            /\ WF_vars(\E ok \in BOOLEAN : PostPassive(k, ok))
            /\ WF_vars(PostEmit(k))

\* Requests are sent and waited for while replies arrive, the channel closes
\* and the user disconnects; the wait of a request ends at its timeout at the
\* latest.
NextWaiters ==
    \/ ConnectBegin(UserTask)
    \/ ConnectOK(UserTask)
    \/ DisconnectCheck(UserTask)
    \/ DisconnectLocked(UserTask)
    \/ \E s \in Sockets, remote \in BOOLEAN : ChannelClosed(s, remote)
    \/ \E s \in Sockets : OnDisconnectStop(s)
    \/ \E s \in Sockets : OnDisconnectLocked(s)
    \/ \E s \in Sockets, i \in ReqIds : ConnRecvFrame(s, Frame(Reply(i)))
    \/ SendRequest
    \/ \E i \in ReqIds : WaiterTimeout(i)

SpecWaiters ==
    /\ Init
    /\ [][NextWaiters]_vars
    /\ \A i \in ReqIds : WF_vars(WaiterTimeout(i))

\* The application connects and later disconnects for good, while remote
\* closures start auto-reconnect and 515 stream errors start their reconnect
\* tasks.
NextUserDisconnect ==
    \/ UserConnectBegin
    \/ \E t \in R515Tasks \cup AutoTasks : ConnectBegin(t)
    \/ \E t \in Tasks : ConnectFail(t)
    \/ \E t \in Tasks : ConnectOK(t)
    \/ \E t \in R515Tasks : DisconnectCheck(t)
    \/ \E t \in R515Tasks : DisconnectLocked(t)
    \/ \E s \in Sockets : ChannelClosed(s, TRUE)
    \/ \E s \in Sockets : OnDisconnectStop(s)
    \/ \E s \in Sockets : OnDisconnectLocked(s)
    \/ \E t \in AutoTasks : AutoStart(t)
    \/ \E t \in AutoTasks : AutoLoad(t)
    \/ \E t \in AutoTasks : AutoIter(t)
    \/ \E s \in Sockets : ConnRecvFrame(s, Frame(StreamError("515", "")))
    \/ \E s \in Sockets : LoopTake(s)
    \/ \E s \in Sockets : LoopHandle(s)
    \/ UserDisconnectCheck
    \/ UserDisconnectLocked

SpecUserDisconnect == Init /\ [][NextUserDisconnect]_vars

\* Logout() is called while the connection is made and lost.
NextLogout ==
    \/ ConnectBegin(UserTask)
    \/ ConnectFail(UserTask)
    \/ ConnectOK(UserTask)
    \/ \E s \in Sockets, remote \in BOOLEAN : ChannelClosed(s, remote)
    \/ \E s \in Sockets : OnDisconnectStop(s)
    \/ \E s \in Sockets : OnDisconnectLocked(s)
    \/ LogoutBegin
    \/ LogoutSend
    \/ LogoutRequestFailed
    \/ LogoutReplied
    \/ LogoutDisconnectCheck
    \/ LogoutDisconnectLocked
    \/ \E ok \in BOOLEAN : LogoutDelete(ok)

SpecLogout == Init /\ [][NextLogout]_vars

\* Handlers that remove themselves, from within the call or on a task of their
\* own, while events are dispatched.
NextSelfRemove ==
    \/ \E fn \in {"returns", "removes", "spawns"} : AddGetID(fn)
    \/ \E h \in adding : AddAppend(h)
    \/ \E d \in Dispatches : DispatchBegin(d)
    \/ \E d \in Dispatches : DispatchInvoke(d)
    \/ \E d \in Dispatches : DispatchEnd(d)
    \/ \E r \in removing : RemoveInHandler(r)

\* Every task that can take a step takes it in the end: the dispatching tasks
\* and the tasks waiting for the write lock (sync.RWMutex does not starve a
\* writer).
SpecSelfRemove ==
    /\ Init
    /\ [][NextSelfRemove]_vars
    /\ \A d \in Dispatches : WF_vars(DispatchInvoke(d)) /\ WF_vars(DispatchEnd(d))
    /\ \A id \in 1..MaxHandlers : \A by \in {0} \cup Dispatches :
            WF_vars(RemoveInHandler(RemoveCall(by, id)))

\* ---------------------------------------------------------------- claims: the handle

\* The sockets established so far.
Established == 1..nsCreated

\* C1: in every reachable state every established socket other than the stored
\* one has been stopped (so at most one live handle exists, the stored one), and
\* a step that stores a new handle starts from a cleared handle with every
\* socket established before it stopped.
C1_OneLiveHandle ==
    /\ [](\A s \in Established : s # socket => s \in nsDestroyed)
    /\ [][(socket' # socket /\ socket' # 0) =>
            (socket = 0 /\ \A s \in Established : s \in nsDestroyed)]_vars

\* A second socket is stored after the first one was torn down.
C1_Witness == socket = 2 /\ 1 \in nsDestroyed

\* C2: a Connect() that finds a stored, healthy socket returns
\* ErrAlreadyConnected and changes neither the handle, the flag, the sockets nor
\* the background tasks; a Connect() that finds a stored, unhealthy socket stops
\* it and clears the handle before the handshake, and the new socket is stored
\* over a cleared handle.
C2_ConnectStoredSocket ==
    [][\A t \in Tasks :
        /\ (ConnectBegin(t) /\ socket # 0 /\ IsConnected(socket)) =>
              /\ result'[t] = "ErrAlreadyConnected"
              /\ socketLock' = {}
              /\ UNCHANGED <<socket, expectedDisconnectVal, nsCreated, nsDestroyed, nsOpen,
                             loop, keepAlive, cb, responseWaiters, events>>
        /\ (ConnectBegin(t) /\ socket # 0 /\ ~IsConnected(socket)) =>
              /\ socket \in nsDestroyed'
              /\ socket' = 0
              /\ pc'[t] = "handshake"
        /\ ConnectOK(t) => socket = 0 /\ \A s \in Established : s \in nsDestroyed
      ]_vars

\* The user's Connect() returned ErrAlreadyConnected on a healthy socket, and an
\* auto-reconnect task is in its handshake after the second socket, closed by
\* the server, was stopped without its closure callback having run.
C2_Witness ==
    /\ result[UserTask] = "ErrAlreadyConnected"
    /\ socketLock = {AutoTask(1)}
    /\ cb[2] = "called"
    /\ 2 \in nsDestroyed

C4_AsStated ==
    [][\A t \in Tasks :
        /\ (DisconnectLocked(t) /\ socket # 0) =>
              /\ \A i \in responseWaiters : delivery'[i] = Append(delivery[i], Delivered("closed", ""))
              /\ responseWaiters' = {}
        /\ (ConnectBegin(t) /\ pc'[t] = "handshake") => responseWaiters = {}
      ]_vars

\* The sockets whose 515 stream error has been handled.
Handled515 == {handled[i].from : i \in {j \in 1..Len(handled) : handled[j].code = "515"}}

\* C10 as stated: once the 515 stream error of a socket has been handled, no
\* Disconnected and no StreamError event is emitted for that socket.
C10_AsStated ==
    [][\A i \in 1..Len(events') :
        (i > Len(events) /\ events'[i].type \in {"Disconnected", "StreamError"})
            => events'[i].sock \notin Handled515]_vars


\* ---------------------------------------------------------------- claims: the frame pipeline

\* C5 as stated: every decoded node that carries the identifier of an
\* outstanding waiter, whatever its tag, is delivered to that waiter and is not
\* put on the handler queue (nor handed to a detached sender).
C5_AsStated ==
    [][\A s \in Sockets, f \in PipeFrames :
        (RecvFrame(s, f) /\ f.decodes /\ f.node.id \in responseWaiters) =>
            /\ delivery'[f.node.id] =
                   Append(delivery[f.node.id], Delivered("reply", f.node.tag))
            /\ responseWaiters' = responseWaiters \ {f.node.id}
            /\ UNCHANGED <<handlerQueue, overflow>>
      ]_vars

\* C5 amended: a decoded node that carries the identifier of an outstanding
\* waiter is never put on the handler queue nor handed to a detached sender;
\* unless it is a stream-end node it is delivered to that waiter, which leaves
\* the registry; a stream-end node is discarded without any delivery.
C5_WaiterOnly ==
    [][\A s \in Sockets, f \in PipeFrames :
        (RecvFrame(s, f) /\ f.decodes /\ f.node.id \in responseWaiters) =>
            /\ UNCHANGED <<handlerQueue, overflow, handled>>
            /\ IF f.node.tag = "xmlstreamend"
               THEN UNCHANGED <<delivery, responseWaiters>>
               ELSE /\ delivery'[f.node.id] =
                         Append(delivery[f.node.id], Delivered("reply", f.node.tag))
                    /\ responseWaiters' = responseWaiters \ {f.node.id}
                    /\ \A i \in ReqIds : i # f.node.id => delivery'[i] = delivery[i]
      ]_vars

\* A node with the routable tag "message" and the identifier of an outstanding
\* waiter went to the waiter: nothing was queued, handled or discarded.
C5_Witness ==
    /\ \E i \in ReqIds : delivery[i] = <<Delivered("reply", "message")>>
    /\ framesRecv = 1
    /\ handlerQueue = <<>> /\ overflow = <<>> /\ handled = <<>>
    /\ \A s \in Sockets : loop[s] # "busy"
    /\ dropped = 0


\* ---------------------------------------------------------------- claims: the failure classifier

\* The loop of socket s runs the handler of a stream-error node in this step.
HandlesStreamError(s) == LoopHandle(s) /\ loopNode[s].tag = "stream:error"

\* C8 as stated: a stream-error node with conflict type "replaced" sets the
\* expected-disconnect flag and emits StreamReplaced (and nothing else), whatever
\* its code.
C8_AsStated ==
    [][\A s \in Sockets :
        (HandlesStreamError(s) /\ loopNode[s].conflict = "replaced") =>
            /\ expectedDisconnectVal'
            /\ events' = Append(events, Event("StreamReplaced", FALSE, "", TRUE,
                                                   loopNode[s].from))
      ]_vars

\* C8 amended: a stream-error node with conflict type "replaced" and a code other
\* than "515" sets the expected-disconnect flag, emits StreamReplaced and nothing
\* else, starts no reconnect task and leaves the store alone; with code "515" the
\* 515 rule wins: the reconnect task is started, no event is emitted and the flag
\* is not touched.
C8_ReplacedUnless515 ==
    [][\A s \in Sockets :
        (HandlesStreamError(s) /\ loopNode[s].conflict = "replaced") =>
            IF loopNode[s].code # "515"
            THEN /\ expectedDisconnectVal'
                 /\ events' = Append(events, Event("StreamReplaced", FALSE, "", TRUE,
                                                   loopNode[s].from))
                 /\ UNCHANGED <<pc, storeID, storeDeletes>>
            ELSE /\ \E i \in R515Tasks : pc[i] = "none" /\ pc'[i] = "disc"
                 /\ UNCHANGED <<expectedDisconnectVal, events, storeID, storeDeletes>>
      ]_vars

\* A node with code 503 and conflict type "replaced" was handled: StreamReplaced
\* is the only event and the flag is set.
C8_Witness ==
    /\ \E i \in 1..Len(handled) : handled[i].code = "503" /\ handled[i].conflict = "replaced"
    /\ Len(handled) = 1
    /\ Len(events) = 1 /\ events[1].type = "StreamReplaced"
    /\ expectedDisconnectVal

\* C9: handling a stream-error node with code 401 and conflict type
\* "device_removed" sets the expected-disconnect flag, then emits exactly one
\* event, LoggedOut with OnConnect false, and calls the store's Delete once; it
\* starts no reconnect task.
C9_DeviceRemoved ==
    [][\A s \in Sockets :
        (HandlesStreamError(s) /\ loopNode[s].code = "401"
                               /\ loopNode[s].conflict = "device_removed") =>
            /\ expectedDisconnectVal'
            /\ events' = Append(events, Event("LoggedOut", FALSE, "", TRUE,
                                              loopNode[s].from))
            /\ storeDeletes' = storeDeletes + 1
            /\ ~isLoggedIn'
            /\ UNCHANGED <<pc, connVars, AutoReconnectErrors, postConnect>>
      ]_vars

\* A 401 device_removed node was handled as the only node: one LoggedOut event,
\* one Delete, the flag set.
C9_Witness ==
    /\ Len(handled) = 1
    /\ handled[1].code = "401" /\ handled[1].conflict = "device_removed"
    /\ Len(events) = 1 /\ events[1].type = "LoggedOut" /\ ~events[1].onConnect
    /\ events[1].expected
    /\ storeDeletes = 1
    /\ expectedDisconnectVal

\* The precedence table of the failure classifier, one row per rule in the order
\* of the rules: the tag, code (or reason) and conflict type a row matches ("*":
\* any), and its outcome: whether the Disconnect/Connect task is started, whether
\* the disconnect is marked as expected, the event ("none": no event) with its
\* OnConnect field, whether the node's code or reason goes into the event, and
\* whether the store is deleted.
PrecedenceTable ==
    << [tag |-> "stream:error", code |-> "515", conflict |-> "*",
        restart |-> TRUE, expect |-> FALSE, event |-> "none", onConnect |-> FALSE,
        withCode |-> FALSE, delete |-> FALSE],
       [tag |-> "stream:error", code |-> "401", conflict |-> "device_removed",
        restart |-> FALSE, expect |-> TRUE, event |-> "LoggedOut", onConnect |-> FALSE,
        withCode |-> FALSE, delete |-> TRUE],
       [tag |-> "stream:error", code |-> "*", conflict |-> "replaced",
        restart |-> FALSE, expect |-> TRUE, event |-> "StreamReplaced", onConnect |-> FALSE,
        withCode |-> FALSE, delete |-> FALSE],
       [tag |-> "stream:error", code |-> "503", conflict |-> "*",
        restart |-> FALSE, expect |-> FALSE, event |-> "none", onConnect |-> FALSE,
        withCode |-> FALSE, delete |-> FALSE],
       [tag |-> "stream:error", code |-> "*", conflict |-> "*",
        restart |-> FALSE, expect |-> FALSE, event |-> "StreamError", onConnect |-> FALSE,
        withCode |-> TRUE, delete |-> FALSE],
       [tag |-> "failure", code |-> "401", conflict |-> "*",
        restart |-> FALSE, expect |-> TRUE, event |-> "LoggedOut", onConnect |-> TRUE,
        withCode |-> FALSE, delete |-> TRUE],
       [tag |-> "failure", code |-> "*", conflict |-> "*",
        restart |-> FALSE, expect |-> TRUE, event |-> "ConnectFailure", onConnect |-> FALSE,
        withCode |-> TRUE, delete |-> FALSE] >>

\* The code of a stream-error node, the reason of a connect-failure node.
CodeOf(node) == IF node.tag = "failure" THEN node.reason ELSE node.code

\* Row k of the table matches the node.
RowMatches(k, node) ==
    /\ PrecedenceTable[k].tag = node.tag
    /\ PrecedenceTable[k].code \in {"*", CodeOf(node)}
    /\ PrecedenceTable[k].conflict \in {"*", node.conflict}

\* The first row that matches the node.
FirstMatch(node) ==
    PrecedenceTable[CHOOSE k \in 1..Len(PrecedenceTable) :
                        RowMatches(k, node) /\ \A j \in 1..(k - 1) : ~RowMatches(j, node)]

\* The loop of socket s runs the handler of a stream-error or connect-failure
\* node in this step.
HandlesFailure(s) == LoopHandle(s) /\ loopNode[s].tag \in {"stream:error", "failure"}

\* C11: handling a stream-error node (every code with every conflict type) or a
\* connect-failure node (every reason) has exactly the outcome of the first row
\* of the precedence table that matches it: the reconnect task is started or
\* not, the expected-disconnect flag is set or left alone, the row's event is
\* the only event emitted (none where the row has none), and the store is
\* deleted once or not at all.
C11_PrecedenceTable ==
    [][\A s \in Sockets :
        HandlesFailure(s) =>
            LET node == loopNode[s]
                row == FirstMatch(node)
            IN  /\ IF row.restart
                   THEN \E i \in R515Tasks :
                            /\ pc[i] = "none" /\ pc'[i] = "disc"
                            /\ \A t \in Tasks : t # i => pc'[t] = pc[t]
                   ELSE pc' = pc
                /\ expectedDisconnectVal' = (row.expect \/ expectedDisconnectVal)
                /\ events' =
                      IF row.event = "none" THEN events
                      ELSE Append(events,
                                  Event(row.event, row.onConnect,
                                        IF row.withCode THEN CodeOf(node) ELSE "",
                                        expectedDisconnectVal', node.from))
                /\ storeDeletes' = storeDeletes + (IF row.delete THEN 1 ELSE 0)
                /\ Len(events') <= Len(events) + 1
      ]_vars

\* A stream error with an unknown code and conflict type, then a connect failure
\* with an unknown reason have been handled: StreamError without the flag, then
\* ConnectFailure with the flag set.
C11_Witness ==
    /\ Len(handled) = 2
    /\ handled[1].tag = "stream:error" /\ handled[1].code = "500"
    /\ handled[1].conflict = "other"
    /\ handled[2].tag = "failure" /\ handled[2].reason = "500"
    /\ Len(events) = 2
    /\ events[1] = Event("StreamError", FALSE, "500", FALSE, handled[1].from)
    /\ events[2] = Event("ConnectFailure", FALSE, "500", TRUE, handled[2].from)
    /\ expectedDisconnectVal

\* The sockets for which the classifier has marked the disconnect as expected:
\* one of their nodes was handled by a row of the table that sets the flag.
MarkedExpected ==
    {handled[i].from : i \in {j \in 1..Len(handled) :
        handled[j].tag \in {"stream:error", "failure"} /\ FirstMatch(handled[j]).expect}}

\* The sockets one of whose nodes led to LoggedOut.
LoggedOutSockets ==
    {handled[i].from : i \in {j \in 1..Len(handled) :
        handled[j].tag \in {"stream:error", "failure"}
        /\ FirstMatch(handled[j]).event = "LoggedOut"}}

C13_ClosureOfStored ==
    [][\A s \in Sockets :
        (OnDisconnectLocked(s) /\ socket = s) =>
            /\ socket' = 0
            /\ responseWaiters' = {}
            /\ \A i \in ReqIds :
                  delivery'[i] = IF i \in responseWaiters
                                 THEN Append(delivery[i], Delivered("closed", ""))
                                 ELSE delivery[i]
            /\ IF cbRemote[s] /\ ~expectedDisconnectVal
               THEN /\ Len(events') = Len(events) + 1
                    /\ SubSeq(events', 1, Len(events)) = events
                    /\ events'[Len(events')].type = "Disconnected"
                    /\ pc[AutoTask(s)] = "none" /\ pc'[AutoTask(s)] = "auto_start"
                    /\ \A t \in Tasks : t # AutoTask(s) => pc'[t] = pc[t]
               ELSE events' = events /\ pc' = pc
      ]_vars

\* The server closed the first socket while a request was outstanding and the
\* callback has run: the waiter was cancelled, Disconnected emitted and the
\* auto-reconnect task started.
C13_Witness ==
    /\ cb[1] = "done" /\ cbRemote[1]
    /\ socket = 0 /\ nsCreated = 1
    /\ delivery[1] = <<Delivered("closed", "")>>
    /\ responseWaiters = {}
    /\ Len(events) = 1 /\ events[1].type = "Disconnected" /\ events[1].sock = 1
    /\ pc[AutoTask(1)] = "auto_start"

\* C14: a closure callback that reports a socket other than the stored one
\* (the handle was replaced or cleared meanwhile) leaves the handle, the
\* sockets, the waiters and their deliveries, the flags and the store as they
\* are, emits no event and starts no task; before it takes the lock it has
\* stopped the socket it reports and nothing else.
C14_StaleCallback ==
    [][\A s \in Sockets :
        /\ (OnDisconnectLocked(s) /\ socket # s) =>
              UNCHANGED <<connVars, flagVars, waiterVars, events, pc, result, frameVars>>
        /\ (OnDisconnectStop(s) /\ socket # s) =>
              /\ UNCHANGED <<socket, nsOpen, flagVars, waiterVars, events, pc, result, frameVars>>
              /\ nsDestroyed' = nsDestroyed \cup {s}
      ]_vars

\* The server closed the first socket with a request outstanding, a Connect()
\* replaced it by the second before the callback got the lock, and the callback
\* has run: the second socket is still stored, the waiter still registered, no
\* event was emitted and no auto-reconnect task started.
C14_Witness ==
    /\ cb[1] = "done" /\ cbRemote[1]
    /\ socket = 2 /\ 2 \in nsOpen
    /\ responseWaiters = {1}
    /\ delivery[1] = <<>>
    /\ events = <<>>
    /\ pc[AutoTask(1)] = "none"


\* ---------------------------------------------------------------- claims: the handler queue

\* The nodes of a sequence that came from socket s, in their order.
FromSocket(nodes, s) == SelectSeq(nodes, LAMBDA n : n.from = s)

IsPrefix(a, b) == Len(a) <= Len(b) /\ SubSeq(b, 1, Len(a)) = a

\* The handler queue loops that hold a node whose handler has not returned.
BusyLoops == {s \in Sockets : loop[s] = "busy"}

\* C15 as stated: the nodes of a connection are passed to their handlers in the
\* order in which they were put on the handler queue, and one at a time: no
\* node is taken from the queue before the handler of the one before it has
\* returned.
C15_AsStated ==
    /\ \A s \in Sockets : IsPrefix(FromSocket(handled, s), FromSocket(enqueued, s))
    /\ Cardinality(BusyLoops) <= 1

\* The frame path would put the node of frame f on the handler queue: it
\* decodes, is no stream end, matches no waiter and its tag has a handler.
Routable(f) ==
    /\ f.decodes
    /\ f.node.tag # "xmlstreamend"
    /\ f.node.id \notin responseWaiters
    /\ f.node.tag \in NodeHandlerTags

\* How often the node that arrived as the k-th frame is in a sequence.
Count(nodes, k) == Cardinality({i \in 1..Len(nodes) : nodes[i].seq = k})

\* C16: a routable node that arrives while the handler queue is full is not
\* discarded and does not block the frame path: handleFrame returns with the
\* node held by a detached sender and the queue as it was; while the handler
\* queue loop keeps consuming, the node is eventually passed to its handler,
\* and no node is ever passed to a handler twice.
C16_FullQueue ==
    /\ [][\A s \in Sockets, f \in PipeFrames :
            (RecvFrame(s, f) /\ Routable(f) /\ Len(handlerQueue) >= QueueCap) =>
                /\ Len(overflow') = Len(overflow) + 1
                /\ overflow'[Len(overflow')].seq = framesRecv'
                /\ overflow'[Len(overflow')].tag = f.node.tag
                /\ UNCHANGED <<handlerQueue, dropped, handled>>
         ]_vars
    /\ \A k \in 1..MaxFrames : (Count(overflow, k) > 0) ~> (Count(handled, k) = 1)
    /\ [](\A k \in 1..MaxFrames :
            Count(handled, k) + Count(handlerQueue, k) + Count(overflow, k)
            + Cardinality({s \in Sockets : loop[s] = "busy" /\ loopNode[s].seq = k}) <= 1)

\* Three routable nodes arrived and all were handled, the third before the
\* second: the second found the queue full and was sent by a detached sender.
C16_Witness ==
    /\ Len(handled) = 3
    /\ handled[2].seq = 3 /\ handled[3].seq = 2
    /\ dropped = 0
    /\ overflow = <<>> /\ handlerQueue = <<>>


\* ---------------------------------------------------------------- claims: the logged-in flag

\* IsLoggedIn()
IsLoggedIn == isLoggedIn

\* C17 as stated: handling a stream-error node, whatever its code, a Disconnect()
\* that tears the socket down and the closure callback of the stored socket all
\* leave the logged-in flag cleared, and IsLoggedIn() is false whenever no
\* socket is stored.
C17_AsStated ==
    /\ [][\A s \in Sockets, t \in Tasks :
            /\ HandlesStreamError(s) => ~IsLoggedIn'
            /\ (DisconnectLocked(t) /\ socket # 0) => ~IsLoggedIn'
            /\ (OnDisconnectLocked(s) /\ socket = s) => ~IsLoggedIn'
         ]_vars
    /\ [](socket = 0 => ~IsLoggedIn)


\* ---------------------------------------------------------------- claims: auto-reconnect

\* The task is inside the loop of autoReconnect, before its next Connect().
InAutoLoop(t) == pc[t] \in {"auto_loop", "auto_store"}

\* C18: autoReconnect returns at once, without a Connect(), when the feature is
\* disabled or the store has no identity; otherwise it enters its loop.  A task
\* in the loop leaves it only when its Connect() returned nil or
\* ErrAlreadyConnected, and both stop it; after a Connect() that returned another
\* error it is in the loop again, whatever the counter, and goes on to its next
\* Connect().
C18_AutoReconnect ==
    /\ [][\A t \in AutoTasks :
            /\ (AutoStart(t) /\ (~EnableAutoReconnect \/ ~storeID)) =>
                  pc'[t] = "done" /\ result'[t] = "none"
            /\ (AutoStart(t) /\ EnableAutoReconnect /\ storeID) => pc'[t] = "auto_loop"
            /\ (pc[t] = "done" => pc'[t] = "done")
            /\ (InAutoLoop(t) => pc'[t] \in {"auto_loop", "auto_store", "conn"})
            /\ (ConnectFail(t) => pc'[t] = "auto_loop")
            /\ (ConnectOK(t) => pc'[t] = "done")
            /\ (ConnectBegin(t) /\ socket # 0 /\ IsConnected(socket) => pc'[t] = "done")
            /\ (pc[t] \notin {"done", "auto_start"} /\ pc'[t] = "done") =>
                  result'[t] \in {"ok", "ErrAlreadyConnected"}
         ]_vars
    /\ \A t \in AutoTasks : InAutoLoop(t) ~> (pc[t] = "conn")

\* The auto-reconnect task of the first socket is in its second Connect() after
\* the first returned an error.
C18_Witness ==
    /\ pc[AutoTask(1)] = "handshake"
    /\ result[AutoTask(1)] = "error"
    /\ AutoReconnectErrors = 2
    /\ hsFails = MaxHandshakeFail

\* C19 as stated: a task in the loop of autoReconnect whose Connect() returned an
\* error starts another turn of the loop only while the feature is enabled:
\* once EnableAutoReconnect is false it makes no further attempt.
C19_AsStated ==
    [][\A t \in AutoTasks :
        (AutoLoad(t) /\ result[t] = "error") => EnableAutoReconnect]_vars

\* No auto-reconnect task is running.
NoAutoReconnect == \A t \in AutoTasks : pc[t] \in {"none", "done"}

\* The success node of the stored socket has been handled.
Authenticated ==
    \E i \in 1..Len(handled) : handled[i].tag = "success" /\ handled[i].from = socket

\* C20 as stated: every turn of the loop of autoReconnect adds exactly one to the
\* counter and sleeps for the new counter times the unit; handling a success
\* node resets the counter; and the counter is the number of failed attempts
\* since the last successful connection, so it is zero when the stored socket
\* is up, its success node has been handled and no auto-reconnect task is
\* running.
C20_AsStated ==
    /\ [][\A t \in AutoTasks :
            AutoIter(t) =>
                /\ AutoReconnectErrors' = AutoReconnectErrors + 1
                /\ autoDelay'[t] = (AutoReconnectErrors + 1) * AutoReconnectUnit
         ]_vars
    /\ [][\A s \in Sockets :
            (LoopHandle(s) /\ loopNode[s].tag = "success") => AutoReconnectErrors' = 0
         ]_vars
    /\ []((socket # 0 /\ IsConnected(socket) /\ Authenticated /\ NoAutoReconnect)
            => AutoReconnectErrors = 0)


\* ---------------------------------------------------------------- claims: the read-only checks

\* C21 as stated: a call of IsConnected() or IsLoggedIn() can always take its
\* next step and return, also while a task holds socketLock in Connect(),
\* Disconnect() or the closure callback.
C21_AsStated ==
    /\ icpc = "rlock" => ENABLED IsConnectedRead
    /\ ENABLED IsLoggedInCall

\* ---------------------------------------------------------------- claims: the event dispatcher

\* Dispatch d has called the handler with this id.
Invoked(d, id) == \E k \in 1..Len(invoked) : invoked[k] = [d |-> d, id |-> id]

\* Dispatch d has returned (normally, or after recovering from a panic).
Returned(d) == dpc[d] \in {"done", "recovered"}

\* The ids of the handlers of a list, in its order.
Ids(list) == [k \in 1..Len(list) |-> list[k].id]

\* C22: RemoveEventHandler(id) returns true exactly when a handler with this id
\* is in the list; then the list it leaves is the old list without that one
\* handler, the others in their order, wherever the handler was (head, middle,
\* tail); for an id that is not in the list it returns false and leaves the list
\* as it is.
C22_RemoveEventHandler ==
    [][\A id \in 1..(MaxHandlers + 1) :
        RemoveEventHandler(id) =>
            IF \E k \in 1..Len(eventHandlers) : eventHandlers[k].id = id
            THEN /\ rmResult' = "true"
                 /\ eventHandlers' = SelectSeq(eventHandlers, LAMBDA h : h.id # id)
                 /\ Len(eventHandlers') = Len(eventHandlers) - 1
            ELSE /\ rmResult' = "false"
                 /\ eventHandlers' = eventHandlers
      ]_vars

\* Three handlers were registered and the one in the middle was removed: the
\* first and the third are left, in this order.
C22_Witness ==
    /\ Ids(eventHandlers) = <<1, 3>>
    /\ removed = {2}
    /\ rmResult = "true"

\* C6 as stated: a dispatch in which a handler panicked does not crash (it
\* returns) and has called every handler that follows the panicking one in the
\* list.
C6_AsStated ==
    \A d \in Dispatches :
        dpc[d] = "recovered" =>
            \A k \in 1..Len(dlist[d]) :
                (\E j \in 1..(k - 1) : dlist[d][j].fn = "panics") => Invoked(d, dlist[d][k].id)

\* C7 as stated: no handler is called once the RemoveEventHandler call for its
\* id has returned, and a dispatch that has returned has called every handler
\* that was registered from its start to its end.
C7_AsStated ==
    /\ [][\A k \in 1..Len(invoked') : k > Len(invoked) => invoked'[k].id \notin removed]_vars
    /\ [](\A d \in Dispatches :
            Returned(d) => \A k \in 1..Len(dlist[d]) : Invoked(d, dlist[d][k].id))

\* The ids of the handlers dispatch d has called, in the order of the calls.
InvokedBy(d) ==
    LET calls == SelectSeq(invoked, LAMBDA e : e.d = d)
    IN  [k \in 1..Len(calls) |-> calls[k].id]

\* C23 as stated: a dispatch that has returned has called every handler that was
\* in the list when it started exactly once, in the order of the list.
C23_AsStated ==
    \A d \in Dispatches : Returned(d) => InvokedBy(d) = Ids(dlist[d])

\* C24: a RemoveEventHandler call made by a handler from within the dispatch
\* never returns: the dispatch stays inside that handler for ever, holding the
\* read lock the call waits for. A call the handler leaves to a task of its own
\* returns, and only when no dispatch holds the read lock; it returns in the end
\* unless a dispatch is stuck in a handler.
C24_RemoveInHandler ==
    /\ [](\A d \in Dispatches :
            dpc[d] = "in_handler" => d \in eventHandlersLock /\ ~ENABLED DispatchEnd(d))
    /\ [][\A d \in Dispatches : dpc[d] = "in_handler" => dpc'[d] = "in_handler"]_vars
    /\ [][\A r \in removing : r \notin removing' => r.by = 0 /\ eventHandlersLock = {}]_vars
    /\ \A id \in 1..MaxHandlers :
            (RemoveCall(0, id) \in removing)
                ~> (RemoveCall(0, id) \notin removing
                    \/ \E d \in Dispatches : dpc[d] = "in_handler")

\* The removal one handler left to a task has been done, and a dispatch is
\* inside a handler that waits for its own removal.
C24_Witness ==
    /\ removed # {}
    /\ \E d \in Dispatches :
            /\ dpc[d] = "in_handler"
            /\ \E id \in 1..MaxHandlers : RemoveCall(d, id) \in removing

\* The ids that are in use: of the handlers in the list, of the AddEventHandler
\* calls that have their id and wait for the lock, and of the removed handlers.
KnownIds ==
    {eventHandlers[k].id : k \in 1..Len(eventHandlers)}
        \cup {h.id : h \in adding} \cup removed

\* C25: the id an AddEventHandler call gets is greater than every id handed out
\* before it, whatever was added and removed before (so the id of a removed
\* handler is not handed out again), and no two handlers in the list have the
\* same id.
C25_FreshIds ==
    /\ [](\A i \in KnownIds : i <= nextHandlerID)
    /\ [](\A j, k \in 1..Len(eventHandlers) : j # k => eventHandlers[j].id # eventHandlers[k].id)
    /\ [][nextHandlerID' >= nextHandlerID]_vars
    /\ [][\A fn \in HandlerFns :
            AddGetID(fn) =>
                \E h \in adding' \ adding :
                    /\ h.id > nextHandlerID
                    /\ h.id \notin KnownIds
                    /\ adding' = adding \cup {h}
         ]_vars

\* The first two handlers are gone, one of them by RemoveEventHandler, and the
\* list holds the third one.
C25_Witness ==
    /\ Ids(eventHandlers) = <<3>>
    /\ removed = {2}
    /\ adding = {}

\* ---------------------------------------------------------------- claims: Logout

\* C26: a Logout() that returned ErrNotLoggedIn has called nothing; one whose
\* request failed has called sendIQ only, neither Disconnect() nor
\* Store.Delete(), and none of its steps changed the connection or the store;
\* the calls of a Logout() are sendIQ, Disconnect(), Store.Delete() in this
\* order, the store is deleted only by the last one, and Disconnect() has left
\* the handle cleared and the socket stopped before Store.Delete() is called.
C26_Logout ==
    /\ [](loResult = "ErrNotLoggedIn" => logoutCalls = <<>>)
    /\ [](loResult = "request_error" => logoutCalls = <<"sendIQ">>)
    /\ [](IsPrefix(logoutCalls, <<"sendIQ", "Disconnect", "Store.Delete">>))
    /\ [][(LogoutBegin \/ LogoutSend \/ LogoutRequestFailed \/ LogoutReplied)
            => UNCHANGED <<connVars, flagVars>>]_vars
    /\ [][storeDeletes' # storeDeletes
            => /\ logoutCalls = <<"sendIQ", "Disconnect">>
               /\ logoutCalls' = <<"sendIQ", "Disconnect", "Store.Delete">>]_vars
    /\ [][LogoutDisconnectLocked
            => socket' = 0 /\ (socket # 0 => socket \in nsDestroyed')]_vars

\* The logout request failed while the client was connected: Logout() has
\* returned the error, the connection is up and the identity is stored.
C26_Witness ==
    /\ loResult = "request_error"
    /\ socket # 0 /\ IsConnected(socket)
    /\ storeID
    /\ storeDeletes = 0

\* ---------------------------------------------------------------- claims: the success node

\* The Connected events emitted so far.
ConnectedEvents == SelectSeq(events, LAMBDA e : e.type = "Connected")

\* The success nodes handled so far.
SuccessHandled == SelectSeq(handled, LAMBDA n : n.tag = "success")

\* The detached tasks of handleConnectSuccess that have run to their end.
PostDone == {k \in 1..Len(postConnect) : postConnect[k].stage = "done"}

\* C27: the step that handles a success node leaves the logged-in flag set and
\* the counter 0, emits nothing and ends with the loop free for the next node
\* while the detached task it started has not taken a step; every success node
\* handled has one detached task and every task that has ended has emitted one
\* Connected; Connected is emitted only by a task whose pre-key check and
\* SetPassive have both returned, with or without an error; and every task
\* emits Connected in the end.
C27_Success ==
    /\ [][\A s \in Sockets :
            (LoopHandle(s) /\ loopNode[s].tag = "success") =>
                /\ isLoggedIn' /\ AutoReconnectErrors' = 0
                /\ loop'[s] = "idle"
                /\ events' = events
                /\ postConnect' = Append(postConnect, PostTask("prekeys", "none", "none"))
         ]_vars
    /\ [](Len(postConnect) = Len(SuccessHandled))
    /\ [](Len(ConnectedEvents) = Cardinality(PostDone))
    /\ [][Len(ConnectedEvents') # Len(ConnectedEvents) =>
            \E k \in 1..Len(postConnect) :
                /\ postConnect[k].stage = "emit"
                /\ postConnect[k].prekeys \in {"ok", "failed"}
                /\ postConnect[k].passive \in {"ok", "failed"}
                /\ postConnect' = [postConnect EXCEPT ![k].stage = "done"]
                /\ Len(ConnectedEvents') = Len(ConnectedEvents) + 1
         ]_vars
    /\ \A k \in 1..MaxLoginFrames :
            (Len(postConnect) >= k) ~> (Len(postConnect) >= k /\ postConnect[k].stage = "done")

\* A node that followed the success node has been handled while the detached
\* task of the success node, whose pre-key check failed, has not yet called
\* SetPassive.
C27_Witness ==
    /\ Len(handled) = 2
    /\ handled[1].tag = "success"
    /\ handled[2].tag # "success"
    /\ postConnect = <<PostTask("passive", "failed", "none")>>

\* ---------------------------------------------------------------- claims: the waiters

C29_AsStated ==
    \A s, t \in Sockets :
        (s < t /\ s \in nsDestroyed) => ~(loop[s] = "busy" /\ loop[t] = "busy")

\* ---------------------------------------------------------------- claims: dropped frames

\* The frame is one that handleFrame has nothing to do with: it does not decode,
\* or its node is a stream end, or no waiter has its identifier and no handler
\* its tag.
Unhandled(f) ==
    \/ ~f.decodes
    \/ f.node.tag = "xmlstreamend"
    \/ (f.node.id \notin responseWaiters /\ f.node.tag \notin NodeHandlerTags)

\* The nodes that are on the handler queue, wait to be put on it, or were.
QueuedNodes ==
    {enqueued[k] : k \in 1..Len(enqueued)} \cup {overflow[k] : k \in 1..Len(overflow)}
        \cup {handlerQueue[k] : k \in 1..Len(handlerQueue)}
        \cup {handled[k] : k \in 1..Len(handled)}

\* C30: a frame that does not decode, a stream-end node, and a node with neither
\* a waiter nor a handler are dropped: the step changes nothing but the counts
\* of frames received and dropped, so nothing is enqueued, delivered or emitted
\* and the connection stays as it is; such a node is never on the handler
\* queue or handled; and a frame with a handler that arrives after dropped
\* frames is put on the handler queue (or handed to a detached sender) as usual.
C30_Dropped ==
    /\ [][\A s \in Sockets, f \in PipeFrames :
            (RecvFrame(s, f) /\ Unhandled(f)) =>
                /\ dropped' = dropped + 1
                /\ UNCHANGED <<connVars, flagVars, taskVars, handlerQueue, overflow, handled,
                               enqueued, waiterVars, events, dispVars, callVars>>
         ]_vars
    /\ [](\A n \in QueuedNodes : n.tag \in NodeHandlerTags)
    /\ [][\A s \in Sockets, f \in PipeFrames :
            (RecvFrame(s, f) /\ Routable(f) /\ dropped > 0) =>
                LET node == [f.node EXCEPT !.from = s, !.seq = framesRecv + 1]
                IN  \/ handlerQueue' = Append(handlerQueue, node)
                    \/ overflow' = Append(overflow, node)
         ]_vars

\* The first two frames were dropped and the node of the third one has been
\* handled.
C30_Witness ==
    /\ dropped = 2
    /\ Len(handled) = 1
    /\ handled[1].seq = 3

\* ---------------------------------------------------------------- claims: after Disconnect

\* C31 as stated: once the Disconnect() of the application has returned, and as
\* long as the application does not call Connect(), no socket is stored.
C31_AsStated == userDisconnect = "returned" => socket = 0

\* ---------------------------------------------------------------- claims: the queue across connections

\* C32 as stated: the steps that tear a channel down leave the handler queue as
\* it is, and a node that is on the queue when the socket it came from has been
\* stopped is taken from the queue by the handler queue loop of a later socket.
C32_AsStated ==
    /\ [][(nsDestroyed' # nsDestroyed) => handlerQueue' = handlerQueue]_vars
    /\ [][\A t \in Sockets :
            (LoopTake(t) /\ Head(handlerQueue).from \in nsDestroyed) =>
                Head(handlerQueue).from < t
         ]_vars

====
